---- MODULE Spec2Model ----
(***************************************************************************)
(* Model of the well-data normalisation pipeline of src/src/normalize.py:  *)
(* the licence and UWI codecs, the production aggregator, the two merges,  *)
(* the gap filler and normalize_data.                                      *)
(*                                                                         *)
(* Strings are TLA+ strings (Len, SubSeq and \o act on them character by   *)
(* character).  A table is a record [kind, cols, rows]: kind "table" for a *)
(* DataFrame, "None" for a returned None, "raise" for an exception that    *)
(* leaves the function; rows is a sequence of functions from column names  *)
(* to cell values.                                                         *)
(***************************************************************************)
EXTENDS Integers, Sequences, FiniteSets, TLC

VARIABLES
    license_number,   \* raw ST1 "License Number" value
    license,          \* raw ST37 "License" value
    st1_std,          \* standardize_st1_license(license_number), or UNSET
    st37_std,         \* standardize_st37_license(license), or UNSET
    uwi,              \* identifier handed to a UWI conversion
    uwi_op,           \* conversions run so far: "none", "display", "display2", "raw"
    uwi_out,          \* value returned by the conversion of uwi, or UNSET
    uwi_out2,         \* value returned by converting uwi_out again, or UNSET
    st1_df,           \* licence table handed to merge_st1_st37 / normalize_data
    st37_df,          \* status table handed to merge_st1_st37 / normalize_data
    petrinex_df,      \* production feed handed to prepare_petrinex_data / normalize_data
    prepared_petrinex_df,  \* result of prepare_petrinex_data
    merged_df,        \* result of merge_st1_st37 (input of fill_missing_values)
    normalized_df,    \* result of fill_missing_values / normalize_data
    enriched_df,      \* result of merge_with_petrinex(merged_df, prepared_petrinex_df)
    raw_file,         \* downloaded file handed to a loader
    loaded_df,        \* value returned by the loader
    dl,               \* a call of download_file: max_retries, attempt, requests sent, result
    quality_metrics,  \* dictionary returned by analyze_data_quality
    env,              \* what a run of main finds: arguments, download and load outcomes
    calls,            \* stages main has invoked so far, in order
    exit_code,        \* value returned by main: 0 or 1, NoExit while it has not returned
    parquet_written,  \* TRUE once normalized_wells_ab.parquet has been written
    pc                \* table operation that has run, "start" before any

licVars == <<license_number, license, st1_std, st37_std>>
uwiVars == <<uwi, uwi_op, uwi_out, uwi_out2>>
tblVars == <<st1_df, st37_df, petrinex_df, prepared_petrinex_df, merged_df, normalized_df,
            enriched_df, raw_file, loaded_df, dl, quality_metrics, env, calls, exit_code, parquet_written, pc>>
tblData == <<st1_df, st37_df, petrinex_df, prepared_petrinex_df, merged_df, normalized_df,
            enriched_df>>
runVars == <<exit_code, parquet_written, env, calls>>
loadVars == <<raw_file, loaded_df, dl, quality_metrics>>
vars == <<license_number, license, st1_std, st37_std, uwi, uwi_op, uwi_out, uwi_out2,
          st1_df, st37_df, petrinex_df, prepared_petrinex_df, merged_df, normalized_df,
          enriched_df, raw_file, loaded_df, dl, quality_metrics, env, calls, exit_code, parquet_written, pc>>

(***************************************************************************)
(* Null and "not yet computed" markers.  Both lie outside every data       *)
(* domain below (they contain characters no data string contains).         *)
(***************************************************************************)
NULL == "<null>"
UNSET == "<unset>"

\* null of a numeric cell (volumes and months are naturals in the model)
NULLV == -1

\* main has not returned
NoExit == -1

\* analyze_data_quality has not been called
NoMetrics == [kind |-> "none"]

\* download_file has not been called
NoDownload == [result |-> "none"]

\* main is not running
NoEnv == [skip_download |-> FALSE]

\* no file has been handed to a loader
NoFile == [source |-> "none"]

\* a DataFrame, a returned None, an exception leaving the function, and the
\* value of a table variable no operation has assigned yet
Table(cols, rows) == [kind |-> "table", cols |-> cols, rows |-> rows]
NoneDf == [kind |-> "None", cols |-> {}, rows |-> <<>>]
Raised == [kind |-> "raise", cols |-> {}, rows |-> <<>>]
NoDf == [kind |-> "unset", cols |-> {}, rows |-> <<>>]

----------------------------------------------------------------------------
(* Bounds *)
MaxLicLen == 2      \* longest unprefixed licence string drawn besides the fixtures
MaxJunkLen == 3     \* longest malformed identifier drawn from UwiJunkChars
MaxLines == 3       \* most production lines in a drawn feed
NumLicences == 6    \* licence rows a drawn licence table is taken from
MaxStatusRows == 5  \* most rows in a drawn status table
MaxFillRows == 3    \* most rows in a table drawn for fill_missing_values

----------------------------------------------------------------------------
(* String helpers: the Python / polars string primitives the code uses *)

CharAt(s, i) == SubSeq(s, i, i)

Digits == {"0", "1", "2", "3", "4", "5", "6", "7", "8", "9"}
Letters == {"W", "F", "A"}

\* str.isalnum() on one character, over the model's alphabet
IsAlnum(c) == c \in Digits \cup Letters

\* ''.join(c for c in s if c.isalnum())
RECURSIVE StripNonAlnum(_)
StripNonAlnum(s) ==
    IF s = "" THEN ""
    ELSE (IF IsAlnum(CharAt(s, 1)) THEN CharAt(s, 1) ELSE "")
         \o StripNonAlnum(SubSeq(s, 2, Len(s)))

\* s.startswith(p)
StartsWith(s, p) == Len(s) >= Len(p) /\ SubSeq(s, 1, Len(p)) = p

\* p in s
Contains(s, p) ==
    \E i \in 1..(Len(s) - Len(p) + 1) : SubSeq(s, i, i + Len(p) - 1) = p

\* s.lstrip(c) for a single character c
RECURSIVE LStrip(_, _)
LStrip(s, c) ==
    IF s # "" /\ CharAt(s, 1) = c THEN LStrip(SubSeq(s, 2, Len(s)), c) ELSE s

\* s.rstrip(c) for a single character c
RECURSIVE RStrip(_, _)
RStrip(s, c) ==
    IF s # "" /\ CharAt(s, Len(s)) = c THEN RStrip(SubSeq(s, 1, Len(s) - 1), c) ELSE s

\* polars str.strip_chars(c) for a single character c: both ends
StripChars(s, c) == RStrip(LStrip(s, c), c)

\* polars str.slice(n): the string without its first n characters
StrSlice(s, n) == SubSeq(s, n + 1, Len(s))

\* all strings over the character set cs of length at most n
RECURSIVE StringsUpTo(_, _)
StringsUpTo(cs, n) ==
    IF n = 0 THEN {""}
    ELSE LET shorter == StringsUpTo(cs, n - 1)
         IN  shorter \cup {c \o s : c \in cs, s \in shorter}

----------------------------------------------------------------------------
(* Licence codec *)

SliceOne(s) == IF s = NULL THEN NULL ELSE StripChars(StrSlice(s, 1), " ")

\* normalize.py standardize_st1_license: .str.slice(2).str.strip_chars(' ')
standardize_st1_license(s) ==
    IF s = NULL THEN NULL ELSE StripChars(StrSlice(s, 2), " ")

\* normalize.py standardize_st37_license: .str.strip_chars(' ')
standardize_st37_license(s) ==
    IF s = NULL THEN NULL ELSE StripChars(s, " ")

\* Raw values of the embedded fixtures st1_test / st37_test
FixtureSt1Licenses == <<"W 1000", "2000", "3000">>
FixtureSt37Licenses == <<"1000", "2000", "3000">>

LicChars == {" ", "W", "1"}
St37LicenseValues == StringsUpTo(LicChars, MaxLicLen)
                        \cup {FixtureSt37Licenses[i] : i \in 1..3}
St1LicenseValues == StringsUpTo(LicChars, MaxLicLen + 2)
                        \cup {FixtureSt1Licenses[i] : i \in 1..3}

IdleLic ==
    /\ license_number = NULL
    /\ license = NULL
    /\ st1_std = UNSET
    /\ st37_std = UNSET

IdleTbl ==
    /\ st1_df = NoDf
    /\ st37_df = NoDf
    /\ petrinex_df = NoDf
    /\ prepared_petrinex_df = NoDf
    /\ merged_df = NoDf
    /\ normalized_df = NoDf
    /\ enriched_df = NoDf
    /\ raw_file = NoFile
    /\ loaded_df = NoDf
    /\ dl = NoDownload
    /\ quality_metrics = NoMetrics
    /\ env = NoEnv
    /\ calls = <<>>
    /\ exit_code = NoExit
    /\ parquet_written = FALSE
    /\ pc = "start"

IdleUwi ==
    /\ uwi = NULL
    /\ uwi_op = "none"
    /\ uwi_out = UNSET
    /\ uwi_out2 = UNSET

InitLicence ==
    /\ license_number \in St1LicenseValues
    /\ license \in St37LicenseValues
    /\ st1_std = UNSET
    /\ st37_std = UNSET
    /\ IdleUwi
    /\ IdleTbl

StandardizeSt1 ==
    /\ st1_std = UNSET
    /\ st1_std' = standardize_st1_license(license_number)
    /\ UNCHANGED <<license_number, license, st37_std, uwiVars, tblVars, runVars, loadVars>>

StandardizeSt37 ==
    /\ st37_std = UNSET
    /\ st37_std' = standardize_st37_license(license)
    /\ UNCHANGED <<license_number, license, st1_std, uwiVars, tblVars, runVars, loadVars>>

NextLicence == StandardizeSt1 \/ StandardizeSt37

SpecLicence == InitLicence /\ [][NextLicence]_vars

BothStandardized == st1_std # UNSET /\ st37_std # UNSET

\* C1: for every licence string L and every two-character prefix XX,
\* standardize_st1_license(XX + L) equals standardize_st37_license(L).
C1_PrefixedConverges ==
    (/\ BothStandardized
     /\ Len(license_number) = Len(license) + 2
     /\ StrSlice(license_number, 2) = license)
    => st1_std = st37_std

C1_Witness ==
    /\ BothStandardized
    /\ license_number = "W 1 "
    /\ license = "1 "
    /\ st1_std = "1"

\* C2: whenever the registry and the status listing reference the same
\* licence their Standardized_License values are equal, for every pair of
\* the embedded fixtures: 'W 1000'/'1000', '2000'/'2000', '3000'/'3000'.
C2_FixtureLicencesJoin ==
    (/\ BothStandardized
     /\ \E i \in 1..3 : /\ license_number = FixtureSt1Licenses[i]
                        /\ license = FixtureSt37Licenses[i])
    => st1_std = st37_std

----------------------------------------------------------------------------
(* Python sequence primitives used by the UWI codec *)

Max(a, b) == IF a >= b THEN a ELSE b
Min(a, b) == IF a <= b THEN a ELSE b

\* normalised bound of a Python slice index i on a string of length n
SliceBound(i, n) == IF i < 0 THEN Max(0, i + n) ELSE Min(i, n)

\* s[a:b]
PySlice(s, a, b) == SubSeq(s, SliceBound(a, Len(s)) + 1, SliceBound(b, Len(s)))

\* s[a:]
PySliceFrom(s, a) == SubSeq(s, SliceBound(a, Len(s)) + 1, Len(s))

\* s[i] raises IndexError
IndexRaises(s, i) == i >= Len(s) \/ i < 0 - Len(s)

\* s[i] when it does not raise
PyIndex(s, i) == IF i < 0 THEN CharAt(s, i + Len(s) + 1) ELSE CharAt(s, i + 1)

\* s.zfill(w) for a string without sign
RECURSIVE ZFill(_, _)
ZFill(s, w) == IF Len(s) >= w THEN s ELSE ZFill("0" \o s, w)

----------------------------------------------------------------------------
(* UWI codec *)

\* convert_display_uwi without the padding step
convert_display_uwi_NoPad(u) ==
    IF u = NULL \/ u = "" THEN u
    ELSE LET stripped_uwi == StripNonAlnum(u)
         IN  IF StartsWith(stripped_uwi, "1") /\ Contains(stripped_uwi, "W4")
             THEN stripped_uwi
             ELSE "1" \o stripped_uwi

\* normalize.py convert_display_uwi (null elements are skipped by
\* map_elements and stay null; the try body has no raising operation)
convert_display_uwi(u) ==
    IF u = NULL \/ u = "" THEN u
    ELSE LET stripped_uwi == StripNonAlnum(u)
         IN  IF StartsWith(stripped_uwi, "1") /\ Contains(stripped_uwi, "W4")
             THEN stripped_uwi
             ELSE LET prefixed_uwi == "1" \o stripped_uwi
                  IN  PySlice(prefixed_uwi, 0, -1) \o "0" \o PySliceFrom(prefixed_uwi, -1)

\* convert_uwi without the removal of the range's leading zeros
convert_uwi_KeepZeros(u) ==
    IF u = NULL \/ u = "" \/ Len(u) < 14 THEN u
    ELSE LET clean_uwi == StripNonAlnum(u)
             n == Len(clean_uwi)
             offset == Max(0, 14 - n)
         IN  IF Contains(clean_uwi, "W4") THEN clean_uwi
             ELSE IF 2 - offset < n /\ IndexRaises(clean_uwi, 2 - offset) THEN u
             ELSE LET meridian == IF 2 - offset < n THEN PyIndex(clean_uwi, 2 - offset) ELSE "4"
                      range_ == IF 3 - offset < n
                                THEN PySlice(clean_uwi, 3 - offset, 6 - offset) ELSE "000"
                      township == IF 6 - offset < n
                                  THEN PySlice(clean_uwi, 6 - offset, 9 - offset) ELSE "000"
                      section == IF 9 - offset < n
                                 THEN PySlice(clean_uwi, 9 - offset, 11 - offset) ELSE "00"
                      lsd == IF 11 - offset < n
                             THEN PySlice(clean_uwi, 11 - offset, 13 - offset) ELSE "00"
                      event_seq == IF 13 - offset < n
                                   THEN PySliceFrom(clean_uwi, 13 - offset) ELSE "0"
                      range_clean == range_
                      township_clean == IF LStrip(township, "0") = "" THEN "0"
                                        ELSE LStrip(township, "0")
                  IN  "1" \o lsd \o section \o ZFill(township_clean, 3)
                          \o ZFill(range_clean, 2) \o meridian \o "W4"
                          \o ZFill(event_seq, 2)

\* convert_uwi with a minimum length of 13 characters
convert_uwi_MinLen13(u) ==
    IF u = NULL \/ u = "" \/ Len(u) < 13 THEN u
    ELSE LET clean_uwi == StripNonAlnum(u)
             n == Len(clean_uwi)
             offset == Max(0, 14 - n)
         IN  IF Contains(clean_uwi, "W4") THEN clean_uwi
             ELSE IF 2 - offset < n /\ IndexRaises(clean_uwi, 2 - offset) THEN u
             ELSE LET meridian == IF 2 - offset < n THEN PyIndex(clean_uwi, 2 - offset) ELSE "4"
                      range_ == IF 3 - offset < n
                                THEN PySlice(clean_uwi, 3 - offset, 6 - offset) ELSE "000"
                      township == IF 6 - offset < n
                                  THEN PySlice(clean_uwi, 6 - offset, 9 - offset) ELSE "000"
                      section == IF 9 - offset < n
                                 THEN PySlice(clean_uwi, 9 - offset, 11 - offset) ELSE "00"
                      lsd == IF 11 - offset < n
                             THEN PySlice(clean_uwi, 11 - offset, 13 - offset) ELSE "00"
                      event_seq == IF 13 - offset < n
                                   THEN PySliceFrom(clean_uwi, 13 - offset) ELSE "0"
                      range_clean == IF LStrip(range_, "0") = "" THEN "0"
                                     ELSE LStrip(range_, "0")
                      township_clean == IF LStrip(township, "0") = "" THEN "0"
                                        ELSE LStrip(township, "0")
                  IN  "1" \o lsd \o section \o ZFill(township_clean, 3)
                          \o ZFill(range_clean, 2) \o meridian \o "W4"
                          \o ZFill(event_seq, 2)

\* normalize.py convert_uwi (raw ST37 format); the only operation of the
\* try body that can raise is the index clean_uwi[2-offset]
convert_uwi(u) ==
    IF u = NULL \/ u = "" \/ Len(u) < 14 THEN u
    ELSE LET clean_uwi == StripNonAlnum(u)
             n == Len(clean_uwi)
             offset == Max(0, 14 - n)
         IN  IF Contains(clean_uwi, "W4") THEN clean_uwi
             ELSE IF 2 - offset < n /\ IndexRaises(clean_uwi, 2 - offset) THEN u
             ELSE LET meridian == IF 2 - offset < n THEN PyIndex(clean_uwi, 2 - offset) ELSE "4"
                      range_ == IF 3 - offset < n
                                THEN PySlice(clean_uwi, 3 - offset, 6 - offset) ELSE "000"
                      township == IF 6 - offset < n
                                  THEN PySlice(clean_uwi, 6 - offset, 9 - offset) ELSE "000"
                      section == IF 9 - offset < n
                                 THEN PySlice(clean_uwi, 9 - offset, 11 - offset) ELSE "00"
                      lsd == IF 11 - offset < n
                             THEN PySlice(clean_uwi, 11 - offset, 13 - offset) ELSE "00"
                      event_seq == IF 13 - offset < n
                                   THEN PySliceFrom(clean_uwi, 13 - offset) ELSE "0"
                      range_clean == IF LStrip(range_, "0") = "" THEN "0"
                                     ELSE LStrip(range_, "0")
                      township_clean == IF LStrip(township, "0") = "" THEN "0"
                                        ELSE LStrip(township, "0")
                  IN  "1" \o lsd \o section \o ZFill(township_clean, 3)
                          \o ZFill(range_clean, 2) \o meridian \o "W4"
                          \o ZFill(event_seq, 2)

(* Identifier inputs *)

\* display format LE/LSD-SEC-TWP-RGWm/E
DisplayUwi(le, lsd, sec, twp, rge, m, e) ==
    le \o "/" \o lsd \o "-" \o sec \o "-" \o twp \o "-" \o rge \o "W" \o m \o "/" \o e

LocationExceptions == {"00", "F1", "10"}
Meridians == {"4", "5"}
EventSequences == {"0", "2"}

WellFormedDisplayUwis ==
    {DisplayUwi(le, q, q, "001", "01", m, e) :
        le \in LocationExceptions, q \in {"05", "06"}, m \in Meridians, e \in EventSequences}

\* raw ST37 format 00MRRRTTTSSLLE, and the 13-character docstring example
RawUwis ==
    {"00" \o m \o "001" \o "001" \o q \o q \o e :
        m \in Meridians, q \in {"05", "06"}, e \in EventSequences}
    \cup {"0014010606002"}

\* 14-character strings with k alphanumeric characters followed by dashes
RECURSIVE Dashes(_)
Dashes(k) == IF k = 0 THEN "" ELSE "-" \o Dashes(k - 1)
PaddedUwis == {SubSeq("00400100106062", 1, k) \o Dashes(14 - k) : k \in 0..14}

UwiJunkChars == {"/", "-", "1", "W", "4"}

\* raw identifiers over several ranges and townships, with an event sequence
\* of one or two characters, and one written with a separator
RawRanges == {"001", "012", "123", "000"}
RawTownships == {"001", "045", "000"}
LongRawUwis ==
    {"00" \o m \o r \o t \o "0606" \o e :
        m \in Meridians, r \in RawRanges, t \in RawTownships, e \in {"0", "02"}}
    \cup {"00-401204506062"}

UwiInputs ==
    {NULL} \cup StringsUpTo(UwiJunkChars, MaxJunkLen)
           \cup WellFormedDisplayUwis \cup RawUwis \cup PaddedUwis \cup LongRawUwis

InitUwi ==
    /\ uwi \in UwiInputs
    /\ uwi_op = "none"
    /\ uwi_out = UNSET
    /\ uwi_out2 = UNSET
    /\ IdleLic
    /\ IdleTbl

\* convert_uwi_display_to_petrinex_format on the element uwi
ConvertDisplay ==
    /\ uwi_op = "none"
    /\ uwi_op' = "display"
    /\ uwi_out' = convert_display_uwi(uwi)
    /\ UNCHANGED <<uwi, uwi_out2, licVars, tblVars, runVars, loadVars>>

\* convert_uwi_display_to_petrinex_format on its own output
ConvertDisplayAgain ==
    /\ uwi_op = "display"
    /\ uwi_op' = "display2"
    /\ uwi_out2' = convert_display_uwi(uwi_out)
    /\ UNCHANGED <<uwi, uwi_out, licVars, tblVars, runVars, loadVars>>

\* convert_raw_uwi_to_petrinex_format on the element uwi
ConvertRaw ==
    /\ uwi_op = "none"
    /\ uwi_op' = "raw"
    /\ uwi_out' = convert_uwi(uwi)
    /\ UNCHANGED <<uwi, uwi_out2, licVars, tblVars, runVars, loadVars>>

NextUwi == ConvertDisplay \/ ConvertDisplayAgain \/ ConvertRaw

SpecUwi == InitUwi /\ [][NextUwi]_vars

InsertZeroBeforeLast(t) ==
    SubSeq(t, 1, Len(t) - 1) \o "0" \o SubSeq(t, Len(t), Len(t))

\* C3: for a non-empty string the display conversion strips all
\* non-alphanumeric characters and, unless the stripped value already starts
\* with '1' and contains 'W4', returns '1' + stripped value with a '0'
\* inserted before the final character; the three sample identifiers give
\* '100060600101W402', '100060600101W400' and '100050500101W400'.
C3_DisplayConversion ==
    (uwi_op = "display" /\ uwi # NULL /\ uwi # "")
    => /\ LET s == StripNonAlnum(uwi)
          IN  uwi_out = IF StartsWith(s, "1") /\ Contains(s, "W4")
                        THEN s
                        ELSE InsertZeroBeforeLast("1" \o s)
       /\ uwi = "00/06-06-001-01W4/2" => uwi_out = "100060600101W402"
       /\ uwi = "00/06-06-001-01W4/0" => uwi_out = "100060600101W400"
       /\ uwi = "00/05-05-001-01W4/0" => uwi_out = "100050500101W400"

C3_Witness ==
    /\ uwi_op = "display"
    /\ uwi = "00/06-06-001-01W4/2"
    /\ uwi_out = "100060600101W402"

\* C4: the display conversion is idempotent on its own output for every
\* well-formed display identifier (any location-exception code, any
\* meridian digit, single event-sequence character).
C4_DisplayIdempotent ==
    (uwi_op = "display2" /\ uwi \in WellFormedDisplayUwis)
    => uwi_out2 = uwi_out

\* an identifier that is null, empty or has no alphanumeric character
InvalidIdentifier(u) == u = NULL \/ u = "" \/ StripNonAlnum(u) = ""

\* C5: for every null, empty or otherwise invalid identifier (e.g. one
\* containing no alphanumeric character) both conversions return the input
\* unchanged.
C5_InvalidUnchanged ==
    (uwi_op \in {"display", "raw"} /\ InvalidIdentifier(uwi))
    => uwi_out = uwi

----------------------------------------------------------------------------
(* Table primitives (polars DataFrame operations the code uses) *)

\* s.endswith(p)
EndsWith(s, p) == Len(s) >= Len(p) /\ SubSeq(s, Len(s) - Len(p) + 1, Len(s)) = p

\* columns holding numbers; every other column holds strings
IsNumericCol(c) ==
    EndsWith(c, "Volume") \/ c \in {"ProductionMonth", "Production Month"}

NullOf(c) == IF IsNumericCol(c) THEN NULLV ELSE NULL

\* all sequences over S of length at most n
SeqsUpTo(S, n) == UNION {[1..k -> S] : k \in 0..n}

\* distinct elements of a sequence in order of first appearance
RECURSIVE Unique(_)
Unique(q) ==
    IF q = <<>> THEN <<>>
    ELSE LET front == Unique(SubSeq(q, 1, Len(q) - 1))
             last == q[Len(q)]
         IN  IF \E i \in 1..Len(front) : front[i] = last THEN front
             ELSE Append(front, last)

RECURSIVE SumSeq(_)
SumSeq(q) == IF q = <<>> THEN 0 ELSE q[1] + SumSeq(Tail(q))

\* Series.max(): nulls are skipped, null when nothing is left
RECURSIVE MaxOfCol(_, _)
MaxOfCol(rows, c) ==
    IF rows = <<>> THEN NULLV
    ELSE LET rest == MaxOfCol(Tail(rows), c)
         IN  IF rows[1][c] = NULLV THEN rest ELSE Max(rows[1][c], rest)

\* str.lower() on one upper-case letter
LowerOf ==
    [c \in {"A", "B", "C", "D", "E", "F", "G", "H", "I", "J", "K", "L", "M",
            "N", "O", "P", "Q", "R", "S", "T", "U", "V", "W", "X", "Y", "Z"} |->
        CASE c = "A" -> "a" [] c = "B" -> "b" [] c = "C" -> "c" [] c = "D" -> "d"
          [] c = "E" -> "e" [] c = "F" -> "f" [] c = "G" -> "g" [] c = "H" -> "h"
          [] c = "I" -> "i" [] c = "J" -> "j" [] c = "K" -> "k" [] c = "L" -> "l"
          [] c = "M" -> "m" [] c = "N" -> "n" [] c = "O" -> "o" [] c = "P" -> "p"
          [] c = "Q" -> "q" [] c = "R" -> "r" [] c = "S" -> "s" [] c = "T" -> "t"
          [] c = "U" -> "u" [] c = "V" -> "v" [] c = "W" -> "w" [] c = "X" -> "x"
          [] c = "Y" -> "y" [] c = "Z" -> "z"]

\* str.lower() on one character
LowerChar(c) == IF c \in DOMAIN LowerOf THEN LowerOf[c] ELSE c

RECURSIVE Lower(_)
Lower(s) == IF s = "" THEN "" ELSE LowerChar(CharAt(s, 1)) \o Lower(SubSeq(s, 2, Len(s)))

\* df.rename(m) for a mapping m given as a function old name -> new name
RenameCols(cols, rows, m) ==
    LET newName(c) == IF c \in DOMAIN m THEN m[c] ELSE c
        newCols == {newName(c) : c \in cols}
        oldName(n) == CHOOSE c \in cols : newName(c) = n
    IN  [cols |-> newCols,
         rows |-> [i \in 1..Len(rows) |-> [n \in newCols |-> rows[i][oldName(n)]]]]

----------------------------------------------------------------------------
(* Production aggregator *)

required_columns == {"FromToIDType", "FromToIDIdentifier", "ProductID", "ActivityID", "Volume"}

\* the filter of Step 2 without the ActivityID condition
PassesFilter_NoActivity(r) ==
    /\ r["FromToIDType"] = "WI"
    /\ r["ProductID"] \in {"GAS", "OIL"}

\* the filter of Step 2 on one row (a null cell compares as not equal)
PassesFilter(r) ==
    /\ r["FromToIDType"] = "WI"
    /\ r["ProductID"] \in {"GAS", "OIL"}
    /\ r["ActivityID"] = "PROD"

\* Step 5 of the pivot: the name given to the pivoted column of product p
VolumeColName(p) == "Latest Month " \o p \o " Production Volume"

\* prepared_df.pivot(index='UWI', columns='ProductID', values='Volume',
\* aggregate_function='sum') followed by the renaming of the product columns:
\* one row per distinct UWI and one column per distinct ProductID, in order
\* of first appearance; a (UWI, product) pair without a line is null
Pivot(rows) ==
    LET uwis == Unique([i \in 1..Len(rows) |-> rows[i]["UWI"]])
        products == {rows[i]["ProductID"] : i \in 1..Len(rows)}
        volumes(u, p) ==
            LET hit(r) == r["UWI"] = u /\ r["ProductID"] = p
                lines == SelectSeq(rows, hit)
            IN  [i \in 1..Len(lines) |-> lines[i]["Volume"]]
        cell(u, p) == IF volumes(u, p) = <<>> THEN NULLV ELSE SumSeq(volumes(u, p))
        cols == {"UWI"} \cup {VolumeColName(p) : p \in products}
        colProduct(c) == CHOOSE p \in products : VolumeColName(p) = c
    IN  [cols |-> cols,
         rows |-> [i \in 1..Len(uwis) |->
                     [c \in cols |-> IF c = "UWI" THEN uwis[i]
                                     ELSE cell(uwis[i], colProduct(c))]]]

\* normalize.py prepare_petrinex_data, called with a DataFrame
prepare_petrinex_data(df) ==
    IF "ProductionMonth" \notin df.cols THEN Raised        \* line 218
    ELSE
    LET latest_month == MaxOfCol(df.rows, "ProductionMonth")
        matches(req) == {c \in df.cols : Lower(c) = Lower(req)}
        column_mapping == {req \in required_columns : matches(req) # {}}
    IN  IF column_mapping # required_columns THEN NoneDf   \* line 236
        ELSE
        LET actual(req) == IF req \in df.cols THEN req ELSE CHOOSE c \in matches(req) : TRUE
            renamed == RenameCols(df.cols, df.rows,
                                  [c \in {actual(req) : req \in required_columns} |->
                                      CHOOSE req \in required_columns : actual(req) = c])
            filtered == SelectSeq(renamed.rows, PassesFilter)
        IN  IF filtered = <<>> THEN NoneDf                 \* line 257
            ELSE
            LET prepared == RenameCols(renamed.cols, filtered,
                                       [c \in {"FromToIDIdentifier"} |-> "UWI"])
                pivoted == Pivot(prepared.rows)
                cols == pivoted.cols \cup {"Production Month"}
            IN  Table(cols,
                      [i \in 1..Len(pivoted.rows) |->
                         [c \in cols |-> IF c = "Production Month" THEN latest_month
                                         ELSE pivoted.rows[i][c]]])

(* Production feeds *)

PetrinexKeepCols ==
    {"ProductionMonth", "ActivityID", "ProductID", "FromToIDType", "FromToIDIdentifier", "Volume"}

Line(month, act, prod, typ, id, vol) ==
    [c \in PetrinexKeepCols |->
        CASE c = "ProductionMonth" -> month
          [] c = "ActivityID" -> act
          [] c = "ProductID" -> prod
          [] c = "FromToIDType" -> typ
          [] c = "FromToIDIdentifier" -> id
          [] c = "Volume" -> vol]

\* ProductionMonth 'YYYY-MM' is modelled as the number YYYYMM, which has the
\* same order
Months == {202401, 202402}
FeedUwis == {"A", "B"}

PassingLines ==
    {Line(202401, "PROD", "OIL", "WI", u, v) : u \in FeedUwis, v \in {50, 100}}
    \cup {Line(202401, "PROD", "GAS", "WI", u, 1000) : u \in FeedUwis}

FailingLines ==
    {Line(202402, "PROD", "OIL", "BT", "A", 100),
     Line(202402, "PROD", "WATER", "WI", "A", 100),
     Line(202402, "INJ", "GAS", "WI", "B", 100)}

\* feeds as the loader delivers them (exactly the keep-list columns)
LoadedFeeds ==
    {Table(PetrinexKeepCols, rows) : rows \in SeqsUpTo(PassingLines \cup FailingLines, MaxLines)}

\* the same feed under other column sets: lower-case names, a missing
\* required column, a missing ProductionMonth
VariantRows ==
    <<Line(202401, "PROD", "OIL", "WI", "A", 100), Line(202401, "PROD", "GAS", "WI", "A", 1000)>>

LowerCased ==
    RenameCols(PetrinexKeepCols, VariantRows,
               [c \in PetrinexKeepCols \ {"ProductionMonth"} |-> Lower(c)])

\* VariantRows without the columns of the set gone
WithoutCols(gone) ==
    Table(PetrinexKeepCols \ gone,
          [i \in 1..2 |-> [k \in PetrinexKeepCols \ gone |-> VariantRows[i][k]]])

\* a feed shaped like the fixture petrinex_test (no ProductionMonth) whose
\* lines all fail the filter
MonthlessFailingFeed ==
    Table(PetrinexKeepCols \ {"ProductionMonth"},
          <<[k \in PetrinexKeepCols \ {"ProductionMonth"} |->
                Line(NULLV, "PROD", "WATER", "WI", "A", 100)[k]]>>)

VariantFeeds ==
    {Table(LowerCased.cols, LowerCased.rows)}
    \cup {WithoutCols({c}) : c \in PetrinexKeepCols}
    \cup {WithoutCols({"ProductionMonth", c}) : c \in required_columns}
    \cup {MonthlessFailingFeed}

InitAgg ==
    /\ petrinex_df \in LoadedFeeds \cup VariantFeeds
    /\ prepared_petrinex_df = NoDf
    /\ pc = "start"
    /\ st1_df = NoDf
    /\ st37_df = NoDf
    /\ merged_df = NoDf
    /\ normalized_df = NoDf
    /\ enriched_df = NoDf
    /\ raw_file = NoFile
    /\ loaded_df = NoDf
    /\ dl = NoDownload
    /\ quality_metrics = NoMetrics
    /\ env = NoEnv
    /\ calls = <<>>
    /\ exit_code = NoExit
    /\ parquet_written = FALSE
    /\ IdleLic
    /\ IdleUwi

PreparePetrinexData ==
    /\ pc = "start"
    /\ pc' = "prepared"
    /\ prepared_petrinex_df' = prepare_petrinex_data(petrinex_df)
    /\ UNCHANGED <<petrinex_df, st1_df, st37_df, merged_df, normalized_df, enriched_df,
                   licVars, uwiVars, runVars, loadVars>>

NextAgg == PreparePetrinexData

SpecAgg == InitAgg /\ [][NextAgg]_vars

\* the claim's own reading of the feed: the lines of identifier u and
\* product p that are well ('WI') production ('PROD') lines
RECURSIVE ClaimedLines(_, _, _)
ClaimedLines(rows, u, p) ==
    IF rows = <<>> THEN <<>>
    ELSE LET r == rows[1]
             rest == ClaimedLines(Tail(rows), u, p)
         IN  IF /\ r["FromToIDIdentifier"] = u /\ r["ProductID"] = p
                /\ r["FromToIDType"] = "WI" /\ r["ActivityID"] = "PROD"
             THEN <<r["Volume"]>> \o rest
             ELSE rest

AggregatedFromLoadedFeed ==
    /\ pc = "prepared"
    /\ petrinex_df.cols = PetrinexKeepCols
    /\ prepared_petrinex_df.kind = "table"

ResultUwis ==
    {prepared_petrinex_df.rows[i]["UWI"] : i \in 1..Len(prepared_petrinex_df.rows)}

OneRowPerUwi ==
    /\ Cardinality(ResultUwis) = Len(prepared_petrinex_df.rows)
    /\ ResultUwis = {u \in FeedUwis : \E p \in {"OIL", "GAS"} :
                        ClaimedLines(petrinex_df.rows, u, p) # <<>>}

----------------------------------------------------------------------------
(* Merge engine *)

\* concatenation of a sequence of sequences
RECURSIVE Flatten(_)
Flatten(qq) == IF qq = <<>> THEN <<>> ELSE qq[1] \o Flatten(Tail(qq))

\* df.with_columns(expr.alias(name)); values[i] is the value of the
\* expression on row i
WithColumn(df, name, values) ==
    Table(df.cols \cup {name},
          [i \in 1..Len(df.rows) |->
              [c \in df.cols \cup {name} |->
                  IF c = name THEN values[i] ELSE df.rows[i][c]]])

\* df.drop(name)
DropColumn(df, name) ==
    Table(df.cols \ {name},
          [i \in 1..Len(df.rows) |-> [c \in df.cols \ {name} |-> df.rows[i][c]]])

\* the join raises DuplicateError: a right column is renamed with the suffix
\* "_right" to a name the left table already has
JoinRaises(L, R, rkey) ==
    \E c \in R.cols \ {rkey} : c \in L.cols /\ (c \o "_right") \in L.cols

\* an inner join in the place of the left join: left rows without a match
\* are dropped
JoinInner(L, R, lkey, rkey) ==
    LET rcols == R.cols \ {rkey}
        outName(c) == IF c \in L.cols THEN c \o "_right" ELSE c
        cols == L.cols \cup {outName(c) : c \in rcols}
        src(n) == CHOOSE c \in rcols : outName(c) = n
        combine(l, r) == [n \in cols |-> IF n \in L.cols THEN l[n] ELSE r[src(n)]]
        matches(l) == LET hit(r) == l[lkey] # NULL /\ r[rkey] = l[lkey]
                      IN  SelectSeq(R.rows, hit)
        expand(l) == [j \in 1..Len(matches(l)) |-> combine(l, matches(l)[j])]
    IN  Table(cols, Flatten([i \in 1..Len(L.rows) |-> expand(L.rows[i])]))

\* L.join(R, left_on=lkey, right_on=rkey, how="left"): every left row, in
\* order, once per right row with an equal non-null key, or once with nulls
\* in the right columns; the right key column is dropped and a right column
\* whose name the left table has gets the suffix "_right"
JoinLeft(L, R, lkey, rkey) ==
    LET rcols == R.cols \ {rkey}
        outName(c) == IF c \in L.cols THEN c \o "_right" ELSE c
        cols == L.cols \cup {outName(c) : c \in rcols}
        src(n) == CHOOSE c \in rcols : outName(c) = n
        nulls == [c \in rcols |-> NullOf(c)]
        combine(l, r) == [n \in cols |-> IF n \in L.cols THEN l[n] ELSE r[src(n)]]
        matches(l) == LET hit(r) == l[lkey] # NULL /\ r[rkey] = l[lkey]
                      IN  SelectSeq(R.rows, hit)
        expand(l) == IF matches(l) = <<>> THEN <<combine(l, nulls)>>
                     ELSE [j \in 1..Len(matches(l)) |-> combine(l, matches(l)[j])]
    IN  Table(cols, Flatten([i \in 1..Len(L.rows) |-> expand(L.rows[i])]))

\* rows requested by .sample(5)
SampleN == 5

\* normalize.py merge_st1_st37
merge_st1_st37(st1, st37) ==
    IF "License Number" \notin st1.cols THEN NoneDf
    ELSE IF "License" \notin st37.cols \/ "UWI Display" \notin st37.cols THEN NoneDf
    ELSE
    LET st1_std_df ==
            WithColumn(st1, "Standardized_License",
                       [i \in 1..Len(st1.rows) |->
                           standardize_st1_license(st1.rows[i]["License Number"])])
        st37_std_df ==
            WithColumn(st37, "Standardized_License",
                       [i \in 1..Len(st37.rows) |->
                           standardize_st37_license(st37.rows[i]["License"])])
    IN  \* .sample(5) without replacement raises on fewer than 5 rows
        IF Len(st1_std_df.rows) < SampleN \/ Len(st37_std_df.rows) < SampleN THEN Raised
        ELSE IF JoinRaises(st37_std_df, st1_std_df, "Standardized_License") THEN Raised
        ELSE
        LET merged == JoinLeft(st37_std_df, st1_std_df,
                               "Standardized_License", "Standardized_License")
        IN  \* uwi_count/merged_df.shape[0] at line 373
            IF Len(merged.rows) = 0 THEN Raised ELSE merged

(* Licence and status tables *)

St1Cols == {"License Number", "Company Name", "License Status"}
St37Cols == {"UWI", "UWI Display", "Field Code", "License", "License Status"}

St1Row(lic, company, status) ==
    [c \in St1Cols |-> CASE c = "License Number" -> lic
                         [] c = "Company Name" -> company
                         [] c = "License Status" -> status]

St37Row(raw, display, field, lic, status) ==
    [c \in St37Cols |-> CASE c = "UWI" -> raw
                          [] c = "UWI Display" -> display
                          [] c = "Field Code" -> field
                          [] c = "License" -> lic
                          [] c = "License Status" -> status]

\* the embedded fixtures st1_test and st37_test (columns the merges read)
FixtureSt1 ==
    Table(St1Cols, <<St1Row("W 1000", "Company A", "Issued"),
                     St1Row("2000", "Company B", "Issued"),
                     St1Row("3000", "Company C", "Abandoned")>>)

FixtureSt37 ==
    Table(St37Cols,
          <<St37Row("0014010606002", "00/06-06-001-01W4/2", "FIELD1", "1000", "Issued"),
            St37Row("0024020606002", "00/06-06-002-02W4/2", "FIELD2", "2000", "Issued"),
            St37Row("0034030606002", "00/06-06-003-03W4/2", "FIELD3", "3000", "Abandoned")>>)

\* str(i) for a single digit
DigitOf(i) == SubSeq("0123456789", i + 1, i + 1)

\* licence row i of the registry: 'W i000'
LicenceRow(i) == St1Row("W " \o DigitOf(i) \o "000", "Company " \o DigitOf(i), "Issued")

\* status row at position i referring to licence digit k
StatusRow(i, k) ==
    St37Row("00" \o DigitOf(i) \o "40" \o DigitOf(i) \o "0606002",
            DisplayUwi("00", "06", "06", "00" \o DigitOf(i), "0" \o DigitOf(i), "4", "2"),
            "FIELD" \o DigitOf(i), DigitOf(k) \o "000", "Issued")

\* sub-sequences of a sequence, order kept
RECURSIVE SubSeqs(_)
SubSeqs(q) ==
    IF q = <<>> THEN {<<>>}
    ELSE LET rest == SubSeqs(Tail(q))
         IN  rest \cup {<<q[1]>> \o t : t \in rest}

\* licence tables with unique licences, a table with a repeated licence, the
\* fixture, and a table without the 'License Number' column
St1Tables ==
    {Table(St1Cols, rows) : rows \in SubSeqs([i \in 1..NumLicences |-> LicenceRow(i)])}
    \cup {Table(St1Cols, [i \in 1..NumLicences |-> LicenceRow(IF i = 2 THEN 1 ELSE i)])}
    \cup {FixtureSt1}
    \cup {DropColumn(Table(St1Cols, [i \in 1..NumLicences |-> LicenceRow(i)]), "License Number")}

\* licence digits a status row may refer to: two registered, one unknown
StatusLicenceDigits == {1, 2, 9}

St37Tables ==
    {Table(St37Cols, [i \in 1..Len(ks) |-> StatusRow(i, ks[i])]) :
        ks \in SeqsUpTo(StatusLicenceDigits, MaxStatusRows)}
    \cup {FixtureSt37}
    \cup {DropColumn(FixtureSt37, "UWI Display")}

InitMerge ==
    /\ st1_df \in St1Tables
    /\ st37_df \in St37Tables
    /\ petrinex_df = NoDf
    /\ prepared_petrinex_df = NoDf
    /\ merged_df = NoDf
    /\ normalized_df = NoDf
    /\ enriched_df = NoDf
    /\ raw_file = NoFile
    /\ loaded_df = NoDf
    /\ dl = NoDownload
    /\ quality_metrics = NoMetrics
    /\ env = NoEnv
    /\ calls = <<>>
    /\ exit_code = NoExit
    /\ parquet_written = FALSE
    /\ pc = "start"
    /\ IdleLic
    /\ IdleUwi

MergeSt1St37 ==
    /\ pc = "start"
    /\ pc' = "merged"
    /\ merged_df' = merge_st1_st37(st1_df, st37_df)
    /\ UNCHANGED <<st1_df, st37_df, petrinex_df, prepared_petrinex_df, normalized_df,
                   enriched_df, licVars, uwiVars, runVars, loadVars>>

NextMerge == MergeSt1St37

SpecMerge == InitMerge /\ [][NextMerge]_vars

\* the licence table has the key column and no two rows with the same
\* Standardized_License
UniqueStandardizedLicence(st1) ==
    /\ "License Number" \in st1.cols
    /\ \A i, j \in 1..Len(st1.rows) :
          standardize_st1_license(st1.rows[i]["License Number"])
            = standardize_st1_license(st1.rows[j]["License Number"]) => i = j

HasStatusKeys(st37) == {"License", "UWI Display"} \subseteq st37.cols

\* C7: for every licence table with unique Standardized_License values and
\* every status table, merge_st1_st37 returns a table with as many rows as
\* the status table.
C7_MergeKeepsRowCount ==
    (pc = "merged" /\ UniqueStandardizedLicence(st1_df) /\ HasStatusKeys(st37_df))
    => /\ merged_df.kind = "table"
       /\ Len(merged_df.rows) = Len(st37_df.rows)

\* what does hold: whenever merge_st1_st37 returns a table for a licence
\* table with unique Standardized_License, the row counts agree
MergeRowCountWhenReturned ==
    (pc = "merged" /\ UniqueStandardizedLicence(st1_df) /\ merged_df.kind = "table")
    => Len(merged_df.rows) = Len(st37_df.rows)

\* merge_with_petrinex without the except clause around the join
merge_with_petrinex_NoCatch(base_df, pet_df) ==
    IF base_df.kind = "None" \/ pet_df.kind = "None" THEN base_df
    ELSE IF "UWI Display" \notin base_df.cols THEN base_df
    ELSE IF "UWI" \notin pet_df.cols THEN base_df
    ELSE LET keyed ==
                 WithColumn(base_df, "Petrinex_UWI",
                            [i \in 1..Len(base_df.rows) |->
                                convert_display_uwi(base_df.rows[i]["UWI Display"])])
         IN  IF JoinRaises(keyed, pet_df, "UWI") THEN Raised
             ELSE DropColumn(JoinLeft(keyed, pet_df, "Petrinex_UWI", "UWI"), "Petrinex_UWI")

\* normalize.py merge_with_petrinex (base is a table or None): the key
\* conversion does not raise; an exception of the join is caught and the
\* base table returned
merge_with_petrinex(base_df, pet_df) ==
    IF base_df.kind = "None" \/ pet_df.kind = "None" THEN base_df
    ELSE IF "UWI Display" \notin base_df.cols THEN base_df
    ELSE IF "UWI" \notin pet_df.cols THEN base_df
    ELSE LET keyed ==
                 WithColumn(base_df, "Petrinex_UWI",
                            [i \in 1..Len(base_df.rows) |->
                                convert_display_uwi(base_df.rows[i]["UWI Display"])])
         IN  IF JoinRaises(keyed, pet_df, "UWI") THEN base_df
             ELSE DropColumn(JoinLeft(keyed, pet_df, "Petrinex_UWI", "UWI"), "Petrinex_UWI")

----------------------------------------------------------------------------
(* Gap filler *)

\* forward_fill(limit=1).over(key): a null cell takes the value of the row
\* just before it in its group, and stays null when that one is null
ForwardFillOver_Limit1(df, c, key) ==
    LET group(i) == {j \in 1..(i - 1) : df.rows[j][key] = df.rows[i][key]}
        last(S) == CHOOSE j \in S : \A k \in S : k <= j
    IN  Table(df.cols,
              [i \in 1..Len(df.rows) |->
                 [d \in df.cols |->
                    IF d = c /\ df.rows[i][c] = NullOf(c) /\ group(i) # {}
                    THEN df.rows[last(group(i))][c]
                    ELSE df.rows[i][d]]])

\* pl.col(c).fill_null(pl.col(c).forward_fill().over(key)): a null cell takes
\* the nearest preceding non-null value among the rows with the same key
\* (rows with a null key form one group)
ForwardFillOver(df, c, key) ==
    LET src(i) == {j \in 1..(i - 1) : /\ df.rows[j][key] = df.rows[i][key]
                                      /\ df.rows[j][c] # NullOf(c)}
        last(S) == CHOOSE j \in S : \A k \in S : k <= j
    IN  Table(df.cols,
              [i \in 1..Len(df.rows) |->
                 [d \in df.cols |->
                    IF d = c /\ df.rows[i][c] = NullOf(c) /\ src(i) # {}
                    THEN df.rows[last(src(i))][c]
                    ELSE df.rows[i][d]]])

\* pl.col(c).fill_null(pl.col(c).backward_fill().over(key))
BackwardFillOver(df, c, key) ==
    LET src(i) == {j \in (i + 1)..Len(df.rows) : /\ df.rows[j][key] = df.rows[i][key]
                                                 /\ df.rows[j][c] # NullOf(c)}
        first(S) == CHOOSE j \in S : \A k \in S : j <= k
    IN  Table(df.cols,
              [i \in 1..Len(df.rows) |->
                 [d \in df.cols |->
                    IF d = c /\ df.rows[i][c] = NullOf(c) /\ src(i) # {}
                    THEN df.rows[first(src(i))][c]
                    ELSE df.rows[i][d]]])

FillColumn(df, c) ==
    IF c \in df.cols
    THEN BackwardFillOver(ForwardFillOver(df, c, "Standardized_License"),
                          c, "Standardized_License")
    ELSE df

\* normalize.py fill_missing_values: the columns it fills are 'UWI Display',
\* 'OIL Volume' and 'GAS Volume'
fill_missing_values(df) ==
    IF df.kind = "None" THEN df
    ELSE IF "Standardized_License" \notin df.cols THEN df
    ELSE FillColumn(FillColumn(FillColumn(df, "UWI Display"), "OIL Volume"), "GAS Volume")

(* Merged tables handed to the gap filler *)

FillCols(vc) == {"Standardized_License", "UWI Display", vc}

FillRow(vc, lic, display, vol) ==
    [c \in FillCols(vc) |-> CASE c = "Standardized_License" -> lic
                              [] c = "UWI Display" -> display
                              [] c = vc -> vol]

FillRows(vc) ==
    {FillRow(vc, lic, display, vol) :
        lic \in {"1000", "2000", NULL}, display \in {"00/06-06-001-01W4/2", NULL},
        vol \in {150, NULLV}}

\* the volume column under the name the gap filler reads and under the name
\* the aggregator writes
FillVolumeCols == {"OIL Volume", VolumeColName("OIL")}

\* a table without the grouping column
FillTableWithoutLicence ==
    DropColumn(Table(FillCols("OIL Volume"),
                     <<FillRow("OIL Volume", "1000", NULL, NULLV),
                       FillRow("OIL Volume", "1000", NULL, 150)>>),
               "Standardized_License")

InitFill ==
    /\ \/ \E vc \in FillVolumeCols : \E n \in 0..MaxFillRows :
             \E rows \in [1..n -> FillRows(vc)] : merged_df = Table(FillCols(vc), rows)
       \/ merged_df = FillTableWithoutLicence
    /\ st1_df = NoDf
    /\ st37_df = NoDf
    /\ petrinex_df = NoDf
    /\ prepared_petrinex_df = NoDf
    /\ normalized_df = NoDf
    /\ enriched_df = NoDf
    /\ raw_file = NoFile
    /\ loaded_df = NoDf
    /\ dl = NoDownload
    /\ quality_metrics = NoMetrics
    /\ env = NoEnv
    /\ calls = <<>>
    /\ exit_code = NoExit
    /\ parquet_written = FALSE
    /\ pc = "start"
    /\ IdleLic
    /\ IdleUwi

FillMissingValues ==
    /\ pc = "start"
    /\ pc' = "filled"
    /\ normalized_df' = fill_missing_values(merged_df)
    /\ UNCHANGED <<st1_df, st37_df, petrinex_df, prepared_petrinex_df, merged_df,
                   enriched_df, licVars, uwiVars, runVars, loadVars>>

NextFill == FillMissingValues

SpecFill == InitFill /\ [][NextFill]_vars

\* rows i < j < k are exactly the rows of one licence, and in column c only
\* the middle one has a value
GroupOfThreeMiddleOnly(df, c, i, j, k) ==
    /\ i < j /\ j < k
    /\ df.rows[i]["Standardized_License"] # NULL
    /\ \A m \in 1..Len(df.rows) :
          (df.rows[m]["Standardized_License"] = df.rows[i]["Standardized_License"])
            <=> m \in {i, j, k}
    /\ df.rows[i][c] = NullOf(c)
    /\ df.rows[j][c] # NullOf(c)
    /\ df.rows[k][c] = NullOf(c)

\* C8: for every production-volume column present (any column whose name
\* ends in 'Volume', the aggregator's 'Latest Month ... Production Volume'
\* included), in a licence group of 3 rows where only the middle row has a
\* volume, all 3 rows carry that volume after fill_missing_values.
C8_FillsGroupOfThree ==
    (pc = "filled" /\ "Standardized_License" \in merged_df.cols)
    => \A c \in {d \in merged_df.cols : EndsWith(d, "Volume")} :
         \A i, j, k \in 1..Len(merged_df.rows) :
            GroupOfThreeMiddleOnly(merged_df, c, i, j, k)
            => \A m \in {i, j, k} : normalized_df.rows[m][c] = merged_df.rows[j][c]

\* what does hold: the same for a column named 'OIL Volume' or 'GAS Volume'
FillsGroupOfThreeNamedColumns ==
    (pc = "filled" /\ "Standardized_License" \in merged_df.cols)
    => \A c \in merged_df.cols \cap {"OIL Volume", "GAS Volume"} :
         \A i, j, k \in 1..Len(merged_df.rows) :
            GroupOfThreeMiddleOnly(merged_df, c, i, j, k)
            => \A m \in {i, j, k} : normalized_df.rows[m][c] = merged_df.rows[j][c]

----------------------------------------------------------------------------
(* normalize_data *)

\* normalize.py normalize_data
normalize_data(st1, st37, pet) ==
    LET prep == prepare_petrinex_data(pet)
    IN  IF prep.kind = "raise" THEN Raised
        ELSE
        LET prepared == IF prep.kind = "None" THEN pet ELSE prep
        IN  \* prepared_petrinex_df.select("Production Month") at line 532
            IF "Production Month" \notin prepared.cols THEN Raised
            ELSE
            LET merged == merge_st1_st37(st1, st37)
            IN  IF merged.kind = "raise" THEN Raised
                ELSE
                LET normalized == fill_missing_values(merge_with_petrinex(merged, prepared))
                IN  \* normalized_df.shape at line 545
                    IF normalized.kind = "None" THEN Raised ELSE normalized

\* the embedded fixture petrinex_test (it has no ProductionMonth column)
FixturePetrinexCols == PetrinexKeepCols \ {"ProductionMonth"}

FixtureLine(id, prod, vol) ==
    [c \in FixturePetrinexCols |-> Line(NULLV, "PROD", prod, "WI", id, vol)[c]]

FixturePetrinex ==
    Table(FixturePetrinexCols,
          <<FixtureLine("100060600101W402", "OIL", 100),
            FixtureLine("100060600101W402", "GAS", 1000),
            FixtureLine("100060600202W402", "OIL", 200),
            FixtureLine("100060600202W402", "GAS", 2000),
            FixtureLine("100060600303W402", "OIL", 300),
            FixtureLine("100060600303W402", "GAS", 3000)>>)

\* loaded feeds for the wells of the drawn status tables: every sub-sequence
\* of three passing lines and one line of another activity
NormalizeLines ==
    <<Line(202401, "PROD", "OIL", "WI", "100060600101W402", 100),
      Line(202401, "PROD", "GAS", "WI", "100060600101W402", 1000),
      Line(202401, "PROD", "OIL", "WI", "100060600202W402", 200),
      Line(202402, "INJ", "GAS", "WI", "100060600202W402", 2000)>>

NormalizeFeeds ==
    {Table(PetrinexKeepCols, rows) : rows \in SubSeqs(NormalizeLines)}
    \cup {FixturePetrinex}

NormalizeSt1Tables ==
    {FixtureSt1,
     Table(St1Cols, [i \in 1..NumLicences |-> LicenceRow(i)]),
     DropColumn(Table(St1Cols, [i \in 1..NumLicences |-> LicenceRow(i)]), "License Number")}

NormalizeSt37Tables ==
    {FixtureSt37}
    \cup {Table(St37Cols, [i \in 1..SampleN |-> StatusRow(i, ks[i])]) :
            ks \in [1..SampleN -> {1, 9}]}

InitNormalize ==
    /\ st1_df \in NormalizeSt1Tables
    /\ st37_df \in NormalizeSt37Tables
    /\ petrinex_df \in NormalizeFeeds
    /\ prepared_petrinex_df = NoDf
    /\ merged_df = NoDf
    /\ normalized_df = NoDf
    /\ enriched_df = NoDf
    /\ raw_file = NoFile
    /\ loaded_df = NoDf
    /\ dl = NoDownload
    /\ quality_metrics = NoMetrics
    /\ env = NoEnv
    /\ calls = <<>>
    /\ exit_code = NoExit
    /\ parquet_written = FALSE
    /\ pc = "start"
    /\ IdleLic
    /\ IdleUwi

NormalizeData ==
    /\ pc = "start"
    /\ pc' = "normalized"
    /\ normalized_df' = normalize_data(st1_df, st37_df, petrinex_df)
    /\ UNCHANGED <<st1_df, st37_df, petrinex_df, prepared_petrinex_df, merged_df,
                   enriched_df, licVars, uwiVars, runVars, loadVars>>

NextNormalize == NormalizeData

SpecNormalize == InitNormalize /\ [][NextNormalize]_vars

\* C9: on the embedded fixtures normalize_data returns one row per status
\* row, each carrying OIL/GAS volumes 100/1000, 200/2000, 300/3000 and a
\* non-null Field Code.
C9_FixtureEndToEnd ==
    (/\ pc = "normalized"
     /\ st1_df = FixtureSt1 /\ st37_df = FixtureSt37 /\ petrinex_df = FixturePetrinex)
    => /\ normalized_df.kind = "table"
       /\ Len(normalized_df.rows) = 3
       /\ {VolumeColName("OIL"), VolumeColName("GAS"), "Field Code"} \subseteq normalized_df.cols
       /\ \A i \in 1..3 :
            /\ normalized_df.rows[i][VolumeColName("OIL")] = 100 * i
            /\ normalized_df.rows[i][VolumeColName("GAS")] = 1000 * i
            /\ normalized_df.rows[i]["Field Code"] # NULL

\* C10: when prepare_petrinex_data returns None, normalize_data still returns
\* the licence+status merged, gap-filled table (without production columns).
C10_FallbackStillReturns ==
    (/\ pc = "normalized"
     /\ prepare_petrinex_data(petrinex_df).kind = "None"
     /\ merge_st1_st37(st1_df, st37_df).kind = "table")
    => /\ normalized_df.kind = "table"
       /\ normalized_df = fill_missing_values(merge_st1_st37(st1_df, st37_df))

\* C11: when merge_st1_st37 returns None (a required column is missing),
\* normalize_data returns a failure value (None): it neither raises nor
\* returns a table.  (Stated for feeds the aggregation succeeds on, so that
\* the merge failure is the only failure of the run.)
C11_MergeFailureReturned ==
    (/\ pc = "normalized"
     /\ prepare_petrinex_data(petrinex_df).kind = "table"
     /\ merge_st1_st37(st1_df, st37_df).kind = "None")
    => normalized_df.kind = "None"

----------------------------------------------------------------------------
(* Production enrichment: merge_with_petrinex on its own *)

\* largest number of rows of the base table
MaxBaseRows == 2

\* largest number of rows of the aggregated production table
MaxPetRows == 2

EnrichBaseCols == {"UWI Display", "Field Code"}

\* display identifiers of base rows: two wells and a missing identifier
EnrichDisplays == {"00/06-06-001-01W4/0", "00/06-06-002-02W4/0", NULL}

\* base row at position i with display identifier d
EnrichBaseRow(i, d) ==
    [c \in EnrichBaseCols |-> IF c = "UWI Display" THEN d ELSE "FIELD" \o DigitOf(i)]

EnrichPetCols == {"UWI", VolumeColName("OIL"), "Production Month"}

\* production identifiers: the two wells of the base rows and a third well
EnrichPetUwis ==
    {convert_display_uwi(d) : d \in EnrichDisplays \ {NULL}} \cup {"100060600303W400"}

EnrichVolumes == {10, 20}

EnrichPetRow(u, v) ==
    [c \in EnrichPetCols |-> CASE c = "UWI" -> u
                               [] c = VolumeColName("OIL") -> v
                               [] c = "Production Month" -> 202401]

EnrichPetRows == {EnrichPetRow(u, v) : u \in EnrichPetUwis, v \in EnrichVolumes}

\* shapes of the base argument: the merged table, one without the key column,
\* one with a 'Production Month' column of its own, one that has the columns
\* 'Production Month' and 'Production Month_right' (the join cannot name its
\* output), and None
BaseShape(shape, df) ==
    CASE shape = "table" -> df
      [] shape = "nokey" -> DropColumn(df, "UWI Display")
      [] shape = "named" ->
            WithColumn(df, "Production Month", [i \in 1..Len(df.rows) |-> 202312])
      [] shape = "clash" ->
            WithColumn(WithColumn(df, "Production Month",
                                  [i \in 1..Len(df.rows) |-> 202312]),
                       "Production Month_right", [i \in 1..Len(df.rows) |-> 202311])
      [] shape = "None" -> NoneDf

\* shapes of the production argument: the aggregated table, one without the
\* key column, and None
PetShape(shape, df) ==
    CASE shape = "table" -> df
      [] shape = "nokey" -> DropColumn(df, "UWI")
      [] shape = "None" -> NoneDf

InitEnrich ==
    /\ \E n \in 0..MaxBaseRows, m \in 0..MaxPetRows :
         \E ds \in [1..n -> EnrichDisplays], prows \in [1..m -> EnrichPetRows] :
           \E bs \in {"table", "nokey", "named", "clash", "None"}, ps \in {"table", "nokey", "None"} :
              /\ merged_df = BaseShape(bs, Table(EnrichBaseCols,
                                                 [i \in 1..n |-> EnrichBaseRow(i, ds[i])]))
              /\ prepared_petrinex_df = PetShape(ps, Table(EnrichPetCols, prows))
    /\ st1_df = NoDf
    /\ st37_df = NoDf
    /\ petrinex_df = NoDf
    /\ normalized_df = NoDf
    /\ enriched_df = NoDf
    /\ raw_file = NoFile
    /\ loaded_df = NoDf
    /\ dl = NoDownload
    /\ quality_metrics = NoMetrics
    /\ env = NoEnv
    /\ calls = <<>>
    /\ exit_code = NoExit
    /\ parquet_written = FALSE
    /\ pc = "start"
    /\ IdleLic
    /\ IdleUwi

MergeWithPetrinex ==
    /\ pc = "start"
    /\ pc' = "enriched"
    /\ enriched_df' = merge_with_petrinex(merged_df, prepared_petrinex_df)
    /\ UNCHANGED <<st1_df, st37_df, petrinex_df, prepared_petrinex_df, merged_df,
                   normalized_df, licVars, uwiVars, runVars, loadVars>>

NextEnrich == MergeWithPetrinex

SpecEnrich == InitEnrich /\ [][NextEnrich]_vars

\* both arguments are tables with their key columns
EnrichKeysPresent ==
    /\ merged_df.kind = "table"
    /\ prepared_petrinex_df.kind = "table"
    /\ "UWI Display" \in merged_df.cols
    /\ "UWI" \in prepared_petrinex_df.cols

\* the join of the keyed base table with the production table raises
EnrichJoinRaises ==
    /\ EnrichKeysPresent
    /\ JoinRaises([cols |-> merged_df.cols \cup {"Petrinex_UWI"}],
                  prepared_petrinex_df, "UWI")

\* C12: merge_with_petrinex never raises, and whenever 'UWI Display' is
\* absent from the base table, 'UWI' is absent from the production table, or
\* the join raises, the result is the base table unchanged (same rows, same
\* columns, same values).
C12_EnrichNeverRaises ==
    pc = "enriched" =>
        /\ enriched_df.kind # "raise"
        /\ (merged_df.kind = "table" /\ prepared_petrinex_df.kind = "table"
              /\ (\/ "UWI Display" \notin merged_df.cols
                  \/ "UWI" \notin prepared_petrinex_df.cols
                  \/ EnrichJoinRaises))
           => enriched_df = merged_df

\* the join raised on a base table with rows and the base table came back
C12_Witness ==
    /\ pc = "enriched"
    /\ EnrichJoinRaises
    /\ Len(merged_df.rows) > 0
    /\ enriched_df = merged_df

----------------------------------------------------------------------------
(* Shape of the aggregated production table *)

\* C13: whenever prepare_petrinex_data succeeds, for every feed (feeds whose
\* passing lines are of one product only included) the result has the columns
\* UWI, 'Latest Month OIL Production Volume', 'Latest Month GAS Production
\* Volume' and a production-month column named ProductionMonth.
C13_ResultColumns ==
    (pc = "prepared" /\ prepared_petrinex_df.kind = "table")
        => {"UWI", VolumeColName("OIL"), VolumeColName("GAS"), "ProductionMonth"}
              \subseteq prepared_petrinex_df.cols

----------------------------------------------------------------------------
(* main: the normalize and save stages (steps 3 and 4) *)

\* loaded tables as in InitNormalize; main is about to call normalize_data
InitMain == InitNormalize

\* step 3: normalize_data is called with no handler around it, then the
\* null percentage of every column is logged (a division by the row count)
MainNormalize ==
    /\ pc = "start"
    /\ LET result == normalize_data(st1_df, st37_df, petrinex_df)
       IN  /\ normalized_df' = result
           /\ pc' = IF result.kind = "raise" THEN "crashed"
                    ELSE IF result.cols # {} /\ Len(result.rows) = 0 THEN "crashed"
                    ELSE "normalized"
    /\ calls' = Append(calls, "normalize_data")
    /\ UNCHANGED <<st1_df, st37_df, petrinex_df, prepared_petrinex_df, merged_df,
                   enriched_df, licVars, uwiVars, exit_code, parquet_written, env,
                   loadVars>>

\* step 4: save_normalized_data puts 'parquet' in output_files exactly when
\* save_to_parquet succeeded (it catches the write's exceptions), and main
\* returns 0 when the key is there and 1, after logging the failure, when not
MainSave ==
    /\ pc = "normalized"
    /\ \E written \in BOOLEAN :
          /\ parquet_written' = written
          /\ exit_code' = IF written THEN 0 ELSE 1
    /\ pc' = "returned"
    /\ calls' = Append(calls, "save_normalized_data")
    /\ UNCHANGED <<st1_df, st37_df, petrinex_df, prepared_petrinex_df, merged_df,
                   normalized_df, enriched_df, licVars, uwiVars, env, loadVars>>

NextMain == MainNormalize \/ MainSave

SpecMain == InitMain /\ [][NextMain]_vars

\* C14: every run of main ends with exit code 0 after the parquet file was
\* written or with exit code 1 after a logged failure; no run ends through an
\* unhandled exception in the normalize/save stages, and no run returns 0
\* without the merged table having been written.
C14_MainOutcomes ==
    /\ pc # "crashed"
    /\ exit_code = 0 => parquet_written
    /\ pc = "returned" => exit_code \in {0, 1}

----------------------------------------------------------------------------
(* Left outer join of status onto licence *)

\* out is the left outer join of st37 (anchor) with st1 on the standardized
\* licence: status rows kept with their values, matching licence rows
\* attached, nulls where no licence matches, unmatched licence rows absent
LeftOuterJoinOnLicence(st1, st37, out) ==
    LET key37(i) == standardize_st37_license(st37.rows[i]["License"])
        key1(k) == standardize_st1_license(st1.rows[k]["License Number"])
        outName(c) == IF c \in st37.cols THEN c \o "_right" ELSE c
        statusPart(j, i) == \A c \in st37.cols : out.rows[j][c] = st37.rows[i][c]
        licPart(j, k) == \A c \in st1.cols : out.rows[j][outName(c)] = st1.rows[k][c]
        nullPart(j) == \A c \in st1.cols : out.rows[j][outName(c)] = NullOf(c)
        matchesOf(i) == {k \in 1..Len(st1.rows) : key37(i) # NULL /\ key1(k) = key37(i)}
        I == 1..Len(st37.rows)
        J == 1..Len(out.rows)
    IN  /\ \A i \in I : \E j \in J : statusPart(j, i)
        /\ \A j \in J : \E i \in I : statusPart(j, i)
        /\ \A i \in I : \A k \in matchesOf(i) :
              \E j \in J : statusPart(j, i) /\ licPart(j, k)
        /\ \A i \in I : matchesOf(i) = {} =>
              \A j \in J : statusPart(j, i) => nullPart(j)
        /\ \A k \in 1..Len(st1.rows) :
              (\A i \in I : k \notin matchesOf(i)) => ~ \E j \in J : licPart(j, k)

\* C15: merge_st1_st37 implements a left outer join anchored on status: every
\* status row appears in the output with its status-side values unchanged, a
\* status row whose Standardized_License equals that of a licence row carries
\* that licence row's columns, a status row without a matching licence has
\* null in all licence columns, and licence rows matching no status row do
\* not appear.
C15_LeftOuterJoin ==
    (pc = "merged" /\ "License Number" \in st1_df.cols /\ HasStatusKeys(st37_df))
    => /\ merged_df.kind = "table"
       /\ LeftOuterJoinOnLicence(st1_df, st37_df, merged_df)

\* what does hold: whenever merge_st1_st37 returns a table, it is that join
LeftOuterJoinWhenReturned ==
    (pc = "merged" /\ merged_df.kind = "table")
    => LeftOuterJoinOnLicence(st1_df, st37_df, merged_df)

\* a returned join with a matched, an unmatched and a repeated licence
LeftOuterJoinReturned ==
    /\ pc = "merged"
    /\ merged_df.kind = "table"
    /\ \E j \in 1..Len(merged_df.rows) : merged_df.rows[j]["Company Name"] = NULL
    /\ \E j \in 1..Len(merged_df.rows) : merged_df.rows[j]["Company Name"] # NULL
    /\ Len(merged_df.rows) > Len(st37_df.rows)

\* the production table has no two rows with the same UWI
UniquePetUwi(pet) ==
    \A a, b \in 1..Len(pet.rows) : pet.rows[a]["UWI"] = pet.rows[b]["UWI"] => a = b

\* out has one row per base row in the same order, every base value
\* unchanged, the production columns (under the suffix "_right" where the
\* base table has the name) taken from the production row whose UWI is the
\* converted 'UWI Display' or null without one, and no 'Petrinex_UWI' column
EnrichedRowPerBaseRow(base, pet, out) ==
    LET outName(c) == IF c \in base.cols THEN c \o "_right" ELSE c
        key(i) == convert_display_uwi(base.rows[i]["UWI Display"])
        hits(i) == {a \in 1..Len(pet.rows) : key(i) # NULL /\ pet.rows[a]["UWI"] = key(i)}
        production(i, c) == IF hits(i) = {} THEN NullOf(c)
                            ELSE pet.rows[CHOOSE a \in hits(i) : TRUE][c]
    IN  /\ out.kind = "table"
        /\ Len(out.rows) = Len(base.rows)
        /\ "Petrinex_UWI" \notin out.cols
        /\ base.cols \subseteq out.cols
        /\ \A c \in pet.cols \ {"UWI"} : outName(c) \in out.cols
        /\ \A i \in 1..Len(out.rows) :
              /\ \A c \in base.cols : out.rows[i][c] = base.rows[i][c]
              /\ \A c \in pet.cols \ {"UWI"} :
                    outName(c) \in out.cols => out.rows[i][outName(c)] = production(i, c)

----------------------------------------------------------------------------
(* Explicit failures of the aggregation *)

\* a canonical column has no case-insensitive match among the feed's columns
MissingCanonical(df) ==
    \E req \in required_columns : \A c \in df.cols : Lower(c) # Lower(req)

\* the feed with its five columns under their canonical names
CanonicalNamed(df) ==
    LET canonical(c) == CHOOSE req \in required_columns : Lower(req) = Lower(c)
        found == {c \in df.cols : \E req \in required_columns : Lower(req) = Lower(c)}
        renamed == RenameCols(df.cols, df.rows, [c \in found |-> canonical(c)])
    IN  Table(renamed.cols, renamed.rows)

\* the five columns are there and no line passes the filter
FilterRemovesAll(df) ==
    /\ ~MissingCanonical(df)
    /\ \A i \in 1..Len(df.rows) : ~PassesFilter(CanonicalNamed(df).rows[i])

\* the five columns are there, each under a name of different letter case
OnlyCaseDiffers(df) ==
    /\ ~MissingCanonical(df)
    /\ required_columns \cap df.cols = {}

\* C17: prepare_petrinex_data returns None (and does not raise) when one of
\* the five canonical columns has no case-insensitive match among the feed's
\* columns, and when the filter removes every row; when the five columns are
\* present only under different letter case, the result is that of the feed
\* with canonical names.
C17_ExplicitFailure ==
    pc = "prepared" =>
        /\ (MissingCanonical(petrinex_df) \/ FilterRemovesAll(petrinex_df))
              => prepared_petrinex_df.kind = "None"
        /\ OnlyCaseDiffers(petrinex_df)
              => prepared_petrinex_df = prepare_petrinex_data(CanonicalNamed(petrinex_df))

\* what does hold: the same for feeds that have a column named exactly
\* ProductionMonth
ExplicitFailureWithMonthColumn ==
    (pc = "prepared" /\ "ProductionMonth" \in petrinex_df.cols) =>
        /\ (MissingCanonical(petrinex_df) \/ FilterRemovesAll(petrinex_df))
              => prepared_petrinex_df.kind = "None"
        /\ OnlyCaseDiffers(petrinex_df)
              => /\ prepared_petrinex_df.kind = "table"
                 /\ prepared_petrinex_df = prepare_petrinex_data(CanonicalNamed(petrinex_df))

----------------------------------------------------------------------------
(* Raw identifier conversion *)

\* 14 or more alphanumeric characters, none of them forming 'W4'
CompactRawIdentifier(u) ==
    /\ u # NULL
    /\ Len(StripNonAlnum(u)) >= 14
    /\ ~Contains(StripNonAlnum(u), "W4")

\* leading zeros removed, '0' if nothing remains
WithoutLeadingZeros(s) == IF LStrip(s, "0") = "" THEN "0" ELSE LStrip(s, "0")

\* C18: for every compact identifier of 14 or more alphanumeric characters
\* not containing 'W4', the raw conversion reads meridian (1 character at
\* offset 2), range (3), township (3), section (2), legal subdivision (2)
\* and event sequence (the remainder), strips the leading zeros of range and
\* township ('0' if nothing remains) and returns '1' + lsd + section +
\* township padded to 3 + range padded to 2 + meridian + 'W4' + event padded
\* to 2.
C18_RawConversion ==
    (uwi_op = "raw" /\ CompactRawIdentifier(uwi))
    => LET c == StripNonAlnum(uwi)
           meridian == SubSeq(c, 3, 3)
           range_ == SubSeq(c, 4, 6)
           township == SubSeq(c, 7, 9)
           section == SubSeq(c, 10, 11)
           lsd == SubSeq(c, 12, 13)
           event_seq == SubSeq(c, 14, Len(c))
       IN  uwi_out = "1" \o lsd \o section \o ZFill(WithoutLeadingZeros(township), 3)
                         \o ZFill(WithoutLeadingZeros(range_), 2) \o meridian \o "W4"
                         \o ZFill(event_seq, 2)

\* a 15-character identifier with range 012, township 045 and event 02
C18_Witness ==
    /\ uwi_op = "raw"
    /\ uwi = "004012045060602"
    /\ CompactRawIdentifier(uwi)
    /\ uwi_out = "10606045124W402"

\* the component the claim describes: the default when the computed start
\* index is negative, the characters from start (0-based) up to stop otherwise
ComponentOrDefault(c, start, stop, default) ==
    IF start < 0 THEN default ELSE SubSeq(c, start + 1, Min(stop, Len(c)))

\* C19: for an input whose cleaned length is below 14 the offset 14 - length
\* keeps every component aligned to the right end of the string, and a
\* component whose computed index is negative takes its default (meridian
\* '4', range '000', township '000', section '00', lsd '00', event '0')
\* instead of being read from the string.
C19_DefaultsOnNegativeIndex ==
    (/\ uwi_op = "raw"
     /\ uwi # NULL
     /\ Len(uwi) >= 14
     /\ Len(StripNonAlnum(uwi)) \in 1..13
     /\ ~Contains(StripNonAlnum(uwi), "W4"))
    => LET c == StripNonAlnum(uwi)
           offset == 14 - Len(c)
           meridian == ComponentOrDefault(c, 2 - offset, 3 - offset, "4")
           range_ == ComponentOrDefault(c, 3 - offset, 6 - offset, "000")
           township == ComponentOrDefault(c, 6 - offset, 9 - offset, "000")
           section == ComponentOrDefault(c, 9 - offset, 11 - offset, "00")
           lsd == ComponentOrDefault(c, 11 - offset, 13 - offset, "00")
           event_seq == ComponentOrDefault(c, 13 - offset, Len(c), "0")
       IN  uwi_out = "1" \o lsd \o section \o ZFill(WithoutLeadingZeros(township), 3)
                         \o ZFill(WithoutLeadingZeros(range_), 2) \o meridian \o "W4"
                         \o ZFill(event_seq, 2)

\* what does hold: with at most two characters missing no index is negative
\* and the components are read right-aligned
RightAlignedWithoutNegativeIndex ==
    (/\ uwi_op = "raw"
     /\ uwi # NULL
     /\ Len(uwi) >= 14
     /\ Len(StripNonAlnum(uwi)) \in 12..13
     /\ ~Contains(StripNonAlnum(uwi), "W4"))
    => LET c == StripNonAlnum(uwi)
           offset == 14 - Len(c)
       IN  uwi_out = "1" \o SubSeq(c, 12 - offset, 13 - offset)
                         \o SubSeq(c, 10 - offset, 11 - offset)
                         \o ZFill(WithoutLeadingZeros(SubSeq(c, 7 - offset, 9 - offset)), 3)
                         \o ZFill(WithoutLeadingZeros(SubSeq(c, 4 - offset, 6 - offset)), 2)
                         \o SubSeq(c, 3 - offset, 3 - offset) \o "W4"
                         \o ZFill(SubSeq(c, 14 - offset, Len(c)), 2)

----------------------------------------------------------------------------
(* Loaders (loader.py).  A file is the table read_csv parses from it, all   *)
(* cells text, or unreadable.                                               *)

\* largest number of data rows of a file
MaxRawRows == 2

essential_cols ==
    {"01.Licence Number", "02.Company Name", "03.Latitude", "04.Longitude",
     "05.Surface Location", "08.Licence Status", "09.Licence Status Date",
     "10.Non-Routine Licence (Y or N)"}

\* rename_map of load_aer_st1
St1RenameMap ==
    [c \in essential_cols |->
        CASE c = "01.Licence Number" -> "License Number"
          [] c = "02.Company Name" -> "Company Name"
          [] c = "03.Latitude" -> "Latitude"
          [] c = "04.Longitude" -> "Longitude"
          [] c = "05.Surface Location" -> "Surface Location"
          [] c = "08.Licence Status" -> "License Status"
          [] c = "09.Licence Status Date" -> "License Status Date"
          [] c = "10.Non-Routine Licence (Y or N)" -> "Is Non-Routine"]

\* df[names]: the columns of the list only
SelectCols(df, names) ==
    Table(names, [i \in 1..Len(df.rows) |-> [c \in names |-> df.rows[i][c]]])

\* loader.py load_aer_st1; staged is the outcome of the two staging writes.
\* Every exception is caught and gives None: an unreadable file, the
\* division by the row count of an empty table, a failed write.
load_aer_st1(file, staged) ==
    IF file.kind # "table" THEN NoneDf
    ELSE IF ~(essential_cols \subseteq file.cols) THEN NoneDf
    ELSE IF Len(file.rows) = 0 THEN NoneDf
    ELSE IF ~staged THEN NoneDf
    ELSE LET kept == SelectCols(file, essential_cols)
             renamed == RenameCols(kept.cols, kept.rows, St1RenameMap)
         IN  Table(renamed.cols, renamed.rows)

\* the 24 column names load_aer_st37 assigns by position
St37Layout ==
    <<"UWI Display format", "UWI", "Update-Flag", "Well-Name", "Field Code", "Pool Code",
      "OS-Area- Code", "OS-Dep- Code", "License-No", "License-Status",
      "License-Issue-Date", "Licensee-Code", "Agent-Code", "Operator-Code",
      "Fin-Drl-Date", "Well-Total-Depth", "Well-Stat-Code", "Well-Stat-Date",
      "Fluid_Short_Description", "Mode_Short_Description", "Type_Short_Description",
      "Structure_Short_Description", "Scheme_Type", "Scheme_Sub_Type">>

St37Dropped == {"Update-Flag", "OS-Dep- Code", "Agent-Code"}

\* columns_to_keep of load_aer_st37: source name -> canonical name
St37RenameMap ==
    [c \in {St37Layout[i] : i \in 1..Len(St37Layout)} \ St37Dropped |->
        CASE c = "UWI Display format" -> "UWI Display"
          [] c = "Well-Name" -> "Well Name"
          [] c = "OS-Area- Code" -> "OS-Area"
          [] c = "License-No" -> "License"
          [] c = "License-Status" -> "License Status"
          [] c = "License-Issue-Date" -> "License Issue Date"
          [] c = "Licensee-Code" -> "Licensee Code"
          [] c = "Operator-Code" -> "Operator Code"
          [] c = "Fin-Drl-Date" -> "Rig Release Date"
          [] c = "Well-Total-Depth" -> "TD"
          [] c = "Well-Stat-Code" -> "Status Code"
          [] c = "Well-Stat-Date" -> "Status Date"
          [] c = "Fluid_Short_Description" -> "Primary Fluid"
          [] c = "Mode_Short_Description" -> "Mode"
          [] c = "Type_Short_Description" -> "Type"
          [] c = "Structure_Short_Description" -> "Structure"
          [] c = "Scheme_Type" -> "Scheme Type"
          [] c = "Scheme_Sub_Type" -> "Scheme Sub-Type"
          [] OTHER -> c]

\* loader.py load_aer_st37: the file has no header, file.lines[i] is the
\* sequence of the tab-separated cells of line i and file.fields their
\* number; reading an empty file raises, and so does assigning 24 names to
\* another number of columns
load_aer_st37(file, staged) ==
    IF file.kind # "table" THEN NoneDf
    ELSE IF Len(file.lines) = 0 THEN NoneDf
    ELSE IF file.fields # Len(St37Layout) THEN NoneDf
    ELSE IF ~staged THEN NoneDf
    ELSE LET position(c) == CHOOSE i \in 1..Len(St37Layout) : St37Layout[i] = c
             named == {St37Layout[i] : i \in 1..Len(St37Layout)}
             kept == named \ St37Dropped
             rows == [i \in 1..Len(file.lines) |-> [c \in kept |-> file.lines[i][position(c)]]]
             renamed == RenameCols(kept, rows, St37RenameMap)
         IN  Table(renamed.cols, renamed.rows)

\* a table with the data type of each column
TypedTable(cols, rows, dtypes) ==
    [kind |-> "table", cols |-> cols, rows |-> rows, dtypes |-> dtypes]

\* null_values of the read_csv call of load_petrinex
DirectNullTokens == {"", "NA", "N/A", "NULL", "None", "***", "---"}

\* the values the row-by-row parse replaces with None
FallbackNullTokens == {"***", "---", ""}

\* s is a non-empty string of decimal digits
IsDigits(s) == s # "" /\ \A i \in 1..Len(s) : CharAt(s, i) \in Digits

DigitValue(d) == CHOOSE v \in 0..9 : DigitOf(v) = d

\* the number a string of digits denotes
RECURSIVE ParseNat(_)
ParseNat(s) ==
    IF s = "" THEN 0
    ELSE 10 * ParseNat(SubSeq(s, 1, Len(s) - 1)) + DigitValue(CharAt(s, Len(s)))

\* read_csv with schema inference: a column whose non-null cells are all
\* numbers is numeric, every other column is text; null tokens become null
DirectRead(file) ==
    LET isNull(v) == v \in DirectNullTokens
        values(c) == {file.rows[i][c] : i \in 1..Len(file.rows)}
        numeric(c) == /\ \E v \in values(c) : ~isNull(v)
                      /\ \A v \in values(c) : isNull(v) \/ IsDigits(v)
        cell(c, v) == IF numeric(c) THEN (IF isNull(v) THEN NULLV ELSE ParseNat(v))
                      ELSE (IF isNull(v) THEN NULL ELSE v)
    IN  TypedTable(file.cols,
                   [i \in 1..Len(file.rows) |->
                       [c \in file.cols |-> cell(c, file.rows[i][c])]],
                   [c \in file.cols |-> IF numeric(c) THEN "Int64" ELSE "String"])

\* the rows of the row-by-row parse: the three tokens become None, every
\* other cell is kept as text
FallbackCleaned(file) ==
    TypedTable(file.cols,
               [i \in 1..Len(file.rows) |->
                   [c \in file.cols |-> IF file.rows[i][c] \in FallbackNullTokens THEN NULL
                                        ELSE file.rows[i][c]]],
               [c \in file.cols |-> "String"])

\* pl.col(col).cast(pl.Float64, strict=False) on every column: the cast does
\* not raise, a text value that is not a number becomes null
FallbackCast(df) ==
    TypedTable(df.cols,
               [i \in 1..Len(df.rows) |->
                   [c \in df.cols |-> IF df.rows[i][c] # NULL /\ IsDigits(df.rows[i][c])
                                      THEN ParseNat(df.rows[i][c])
                                      ELSE NULLV]],
               [c \in df.cols |-> "Float64"])

\* loader.py load_petrinex.  direct: one of the five encodings gets through
\* the read_csv call and the staging writes.  constructed: the DataFrame
\* constructor of the row-by-row parse accepts the rows with a schema given
\* as a list of data types (the polars release decides).  Every exception is
\* caught; after the last one None is returned.
load_petrinex(file, direct, constructed) ==
    IF file.kind # "table" THEN NoneDf
    ELSE IF direct /\ PetrinexKeepCols \subseteq file.cols
         THEN LET df == DirectRead(file)
              IN  TypedTable(PetrinexKeepCols, SelectCols(df, PetrinexKeepCols).rows,
                             [c \in PetrinexKeepCols |-> df.dtypes[c]])
    ELSE IF constructed THEN FallbackCast(FallbackCleaned(file))
    ELSE NoneDf

(* Files *)

UnreadableFile(source) == [source |-> source, kind |-> "unreadable"]

\* ST1 files: the essential columns and one more, or one essential column
\* missing; the licence number varies, every other cell is a fixed text
St1FileCols == essential_cols \cup {"06.Well Name"}

St1FileRow(cols, lic) ==
    [c \in cols |-> IF c = "01.Licence Number" THEN lic ELSE "text"]

\* ST37 lines of n tab-separated cells; the licence is cell 9
St37FileLine(n, lic) == [j \in 1..n |-> IF j = 9 THEN lic ELSE "text"]

\* Petrinex files: the keep-list columns and Hours, or one keep-list column
\* missing; product and volume vary
PetrinexFileCols == PetrinexKeepCols \cup {"Hours"}

PetrinexFileRow(cols, prod, vol) ==
    [c \in cols |-> CASE c = "ProductionMonth" -> "2024-01"
                      [] c = "ActivityID" -> "PROD"
                      [] c = "ProductID" -> prod
                      [] c = "FromToIDType" -> "WI"
                      [] c = "FromToIDIdentifier" -> "A"
                      [] c = "Volume" -> vol
                      [] c = "Hours" -> "***"]

PetrinexVolumeCells == {"100", "***", "", "NA"}

InitLoad ==
    /\ \/ \E source \in {"st1", "st37", "petrinex"} : raw_file = UnreadableFile(source)
       \/ \E gone \in {{}} \cup {{c} : c \in essential_cols} :
            \E n \in 0..MaxRawRows : \E lics \in [1..n -> {"W 1000", "2000"}] :
               raw_file = [source |-> "st1", kind |-> "table",
                           cols |-> St1FileCols \ gone,
                           rows |-> [i \in 1..n |-> St1FileRow(St1FileCols \ gone, lics[i])]]
       \/ \E fields \in {23, 24, 25} :
            \E n \in 0..MaxRawRows : \E lics \in [1..n -> {"1000", "2000"}] :
               raw_file = [source |-> "st37", kind |-> "table", fields |-> fields,
                           lines |-> [i \in 1..n |-> St37FileLine(fields, lics[i])]]
       \/ \E gone \in {{}} \cup {{c} : c \in PetrinexKeepCols} :
            \E n \in 0..MaxRawRows :
              \E prods \in [1..n -> {"OIL", "GAS"}], vols \in [1..n -> PetrinexVolumeCells] :
               raw_file = [source |-> "petrinex", kind |-> "table",
                           cols |-> PetrinexFileCols \ gone,
                           rows |-> [i \in 1..n |->
                                       PetrinexFileRow(PetrinexFileCols \ gone,
                                                       prods[i], vols[i])]]
    /\ loaded_df = NoDf
    /\ dl = NoDownload
    /\ quality_metrics = NoMetrics
    /\ st1_df = NoDf
    /\ st37_df = NoDf
    /\ petrinex_df = NoDf
    /\ prepared_petrinex_df = NoDf
    /\ merged_df = NoDf
    /\ normalized_df = NoDf
    /\ enriched_df = NoDf
    /\ env = NoEnv
    /\ calls = <<>>
    /\ exit_code = NoExit
    /\ parquet_written = FALSE
    /\ pc = "start"
    /\ IdleLic
    /\ IdleUwi

LoadAerSt1 ==
    /\ pc = "start"
    /\ raw_file.source = "st1"
    /\ \E staged \in BOOLEAN : loaded_df' = load_aer_st1(raw_file, staged)
    /\ pc' = "loaded"
    /\ UNCHANGED <<raw_file, dl, quality_metrics, tblData, licVars, uwiVars, runVars>>

LoadAerSt37 ==
    /\ pc = "start"
    /\ raw_file.source = "st37"
    /\ \E staged \in BOOLEAN : loaded_df' = load_aer_st37(raw_file, staged)
    /\ pc' = "loaded"
    /\ UNCHANGED <<raw_file, dl, quality_metrics, tblData, licVars, uwiVars, runVars>>

LoadPetrinex ==
    /\ pc = "start"
    /\ raw_file.source = "petrinex"
    /\ \E direct \in BOOLEAN, constructed \in BOOLEAN :
          loaded_df' = load_petrinex(raw_file, direct, constructed)
    /\ pc' = "loaded"
    /\ UNCHANGED <<raw_file, dl, quality_metrics, tblData, licVars, uwiVars, runVars>>

NextLoad == LoadAerSt1 \/ LoadAerSt37 \/ LoadPetrinex

SpecLoad == InitLoad /\ [][NextLoad]_vars

\* the canonical names of the loader's keep-list
KeepList(source) ==
    CASE source = "st1" -> {St1RenameMap[c] : c \in DOMAIN St1RenameMap}
      [] source = "st37" -> {St37RenameMap[c] : c \in DOMAIN St37RenameMap}
      [] source = "petrinex" -> PetrinexKeepCols

\* a required source column is missing from the file
MissingSourceColumn(file) ==
    /\ file.kind = "table"
    /\ CASE file.source = "st1" -> ~(essential_cols \subseteq file.cols)
         [] file.source = "st37" -> file.fields < Len(St37Layout)
         [] file.source = "petrinex" -> ~(PetrinexKeepCols \subseteq file.cols)

LoadersKeepListOrNoneWithoutFallback ==
    (pc = "loaded" /\ ~(raw_file.source = "petrinex" /\ loaded_df.kind = "table"
                          /\ loaded_df.cols # PetrinexKeepCols)) =>
        /\ \/ loaded_df.kind = "None"
           \/ loaded_df.kind = "table" /\ loaded_df.cols = KeepList(raw_file.source)
        /\ MissingSourceColumn(raw_file) => loaded_df.kind = "None"

\* the file makes load_petrinex take the row-by-row parse whatever the
\* encoding: a keep-list column is missing, so every direct attempt raises
ForcesFallback(file) ==
    /\ file.source = "petrinex"
    /\ file.kind = "table"
    /\ ~(PetrinexKeepCols \subseteq file.cols)

\* column c of the file holds a text value that is not a number
HoldsText(file, c) ==
    \E i \in 1..Len(file.rows) :
        file.rows[i][c] \notin FallbackNullTokens /\ ~IsDigits(file.rows[i][c])

\* C22: in the row-by-row parse of load_petrinex the tokens '***', '---' and
\* '' become null and every other cell is kept as text, and after the
\* per-column numeric cast a column holding a non-numeric text value is
\* still a text column with its original values.
C22_TextColumnsKept ==
    (pc = "loaded" /\ ForcesFallback(raw_file)) =>
        /\ loaded_df.kind = "table"
        /\ \A c \in raw_file.cols :
              HoldsText(raw_file, c) =>
                  /\ loaded_df.dtypes[c] = "String"
                  /\ \A i \in 1..Len(raw_file.rows) :
                        loaded_df.rows[i][c] = FallbackCleaned(raw_file).rows[i][c]

----------------------------------------------------------------------------
(* main: the whole run (main.py).  env holds what the run finds: the        *)
(* --skip-download argument, the outcome of each download, the files of     *)
(* the download directory, and the value each loader returns.               *)

DownloadOutcomes == {"path", "None", "raise"}

PetrinexFileNames == {"Petrinex_Vol_2025-01.csv", "Petrinex_Vol_2025-02.csv"}

\* values the loaders return in a run: None, the fixture, or a larger table
RunSt1Tables == {NoneDf, FixtureSt1, Table(St1Cols, [i \in 1..NumLicences |-> LicenceRow(i)])}
RunSt37Tables == {NoneDf, FixtureSt37, Table(St37Cols, [i \in 1..SampleN |-> StatusRow(i, 1)])}
RunFeeds == {NoneDf, Table(PetrinexKeepCols, NormalizeLines)}

InitRun ==
    /\ \E skip \in BOOLEAN, e1 \in BOOLEAN, e37 \in BOOLEAN :
         \E d1 \in DownloadOutcomes, d37 \in DownloadOutcomes, dp \in DownloadOutcomes :
           \E files \in SUBSET PetrinexFileNames :
             \E t1 \in RunSt1Tables, t37 \in RunSt37Tables, tp \in RunFeeds :
                env = [skip_download |-> skip,
                       download_aer_st1 |-> d1, download_aer_st37 |-> d37,
                       download_petrinex |-> dp,
                       petrinex_files |-> files, st1_exists |-> e1, st37_exists |-> e37,
                       load_aer_st1 |-> t1, load_aer_st37 |-> t37, load_petrinex |-> tp]
    /\ calls = <<>>
    /\ exit_code = NoExit
    /\ parquet_written = FALSE
    /\ pc = "main"
    /\ st1_df = NoDf
    /\ st37_df = NoDf
    /\ petrinex_df = NoDf
    /\ prepared_petrinex_df = NoDf
    /\ merged_df = NoDf
    /\ normalized_df = NoDf
    /\ enriched_df = NoDf
    /\ raw_file = NoFile
    /\ loaded_df = NoDf
    /\ dl = NoDownload
    /\ quality_metrics = NoMetrics
    /\ IdleLic
    /\ IdleUwi

\* one download of step 1: the call, then 'if not path: return 1'
Download(name, next) ==
    /\ calls' = Append(calls, name)
    /\ pc' = CASE env[name] = "path" -> next
               [] env[name] = "None" -> "returned"
               [] env[name] = "raise" -> "crashed"
    /\ exit_code' = IF env[name] = "None" THEN 1 ELSE exit_code
    /\ UNCHANGED <<tblData, parquet_written, env, licVars, uwiVars, loadVars>>

MainDownloadSt1 ==
    /\ pc = "main"
    /\ ~env.skip_download
    /\ Download("download_aer_st1", "download_st37")

MainDownloadSt37 ==
    /\ pc = "download_st37"
    /\ Download("download_aer_st37", "download_petrinex")

MainDownloadPetrinex ==
    /\ pc = "download_petrinex"
    /\ Download("download_petrinex", "load_st1")

\* --skip-download: the newest Petrinex file of the directory is used, and
\* the run returns 1 when there is none or an AER file does not exist
MainUseExistingFiles ==
    /\ pc = "main"
    /\ env.skip_download
    /\ LET missing == \/ env.petrinex_files = {}
                      \/ ~env.st1_exists
                      \/ ~env.st37_exists
       IN  /\ pc' = IF missing THEN "returned" ELSE "load_st1"
           /\ exit_code' = IF missing THEN 1 ELSE exit_code
    /\ UNCHANGED <<tblData, parquet_written, env, calls, licVars, uwiVars, loadVars>>

\* the position after a load that returned df
AfterLoad(df, next) == IF df.kind = "None" THEN "returned" ELSE next

ExitAfterLoad(df) == IF df.kind = "None" THEN 1 ELSE exit_code

\* MainLoadSt1 without the return after a failed load
MainLoadSt1_NoAbort ==
    /\ pc = "load_st1"
    /\ calls' = Append(calls, "load_aer_st1")
    /\ st1_df' = env.load_aer_st1
    /\ pc' = "load_st37"
    /\ exit_code' = exit_code
    /\ UNCHANGED <<st37_df, petrinex_df, prepared_petrinex_df, merged_df, normalized_df,
                   enriched_df, parquet_written, env, licVars, uwiVars, loadVars>>

MainLoadSt1 ==
    /\ pc = "load_st1"
    /\ calls' = Append(calls, "load_aer_st1")
    /\ st1_df' = env.load_aer_st1
    /\ pc' = AfterLoad(env.load_aer_st1, "load_st37")
    /\ exit_code' = ExitAfterLoad(env.load_aer_st1)
    /\ UNCHANGED <<st37_df, petrinex_df, prepared_petrinex_df, merged_df, normalized_df,
                   enriched_df, parquet_written, env, licVars, uwiVars, loadVars>>

MainLoadSt37 ==
    /\ pc = "load_st37"
    /\ calls' = Append(calls, "load_aer_st37")
    /\ st37_df' = env.load_aer_st37
    /\ pc' = AfterLoad(env.load_aer_st37, "load_petrinex")
    /\ exit_code' = ExitAfterLoad(env.load_aer_st37)
    /\ UNCHANGED <<st1_df, petrinex_df, prepared_petrinex_df, merged_df, normalized_df,
                   enriched_df, parquet_written, env, licVars, uwiVars, loadVars>>

MainLoadPetrinex ==
    /\ pc = "load_petrinex"
    /\ calls' = Append(calls, "load_petrinex")
    /\ petrinex_df' = env.load_petrinex
    /\ pc' = AfterLoad(env.load_petrinex, "start")
    /\ exit_code' = ExitAfterLoad(env.load_petrinex)
    /\ UNCHANGED <<st1_df, st37_df, prepared_petrinex_df, merged_df, normalized_df,
                   enriched_df, parquet_written, env, licVars, uwiVars, loadVars>>

NextRun ==
    \/ MainDownloadSt1
    \/ MainDownloadSt37
    \/ MainDownloadPetrinex
    \/ MainUseExistingFiles
    \/ MainLoadSt1
    \/ MainLoadSt37
    \/ MainLoadPetrinex
    \/ MainNormalize
    \/ MainSave

SpecRun == InitRun /\ [][NextRun]_vars

\* the stages in the order of main
StageOrder ==
    <<"download_aer_st1", "download_aer_st37", "download_petrinex",
      "load_aer_st1", "load_aer_st37", "load_petrinex",
      "normalize_data", "save_normalized_data">>

StagePosition(name) == CHOOSE k \in 1..Len(StageOrder) : StageOrder[k] = name

\* the download or load reported failure (returned None)
ReportedFailure(name) ==
    \/ StagePosition(name) <= 3 /\ env[name] = "None"
    \/ StagePosition(name) \in 4..6 /\ env[name].kind = "None"

\* the file checks of --skip-download failed
FileCheckFailed ==
    /\ env.skip_download
    /\ pc # "main"
    /\ env.petrinex_files = {} \/ ~env.st1_exists \/ ~env.st37_exists

\* C23: main invokes its stages strictly in the order download (ST1, ST37,
\* Petrinex), load (ST1, ST37, Petrinex), normalize, save; as soon as a
\* download, a file-existence check or a load reports failure main returns
\* exit code 1 and invokes no later stage.
C23_StageOrderAndAbort ==
    /\ \A i, j \in 1..Len(calls) :
          i < j => StagePosition(calls[i]) < StagePosition(calls[j])
    /\ \A j \in 1..Len(calls) :
          \A k \in 1..(StagePosition(calls[j]) - 1) :
             (k > 3 \/ ~env.skip_download) => \E i \in 1..(j - 1) : calls[i] = StageOrder[k]
    /\ \A i \in 1..Len(calls) :
          (StagePosition(calls[i]) <= 6 /\ ReportedFailure(calls[i]))
             => i = Len(calls) /\ pc = "returned" /\ exit_code = 1
    /\ FileCheckFailed => calls = <<>> /\ pc = "returned" /\ exit_code = 1

\* a run without --skip-download whose third load reported failure: the
\* three downloads and the three loads were invoked, nothing after them
C23_Witness ==
    /\ ~env.skip_download
    /\ calls = SubSeq(StageOrder, 1, 6)
    /\ env.load_petrinex.kind = "None"
    /\ pc = "returned"
    /\ exit_code = 1

----------------------------------------------------------------------------
(* download_file (downloader.py): the retry loop *)

\* largest max_retries argument
MaxRetries == 3

\* what one pass of the loop body meets: a completed download, a timeout, an
\* HTTP error status, another request error, or an error writing the file
\* (not a requests exception, so no handler of the loop catches it)
AttemptOutcomes == {"ok", "timeout", "4xx", "5xx", "request_error", "os_error"}

\* the loop body with a 4xx status handled like a 5xx one
AfterAttempt_Retry4xx(d, outcome) ==
    LET last == d.attempt = d.max_retries
        result == CASE outcome = "ok" -> "True"
                    [] outcome = "os_error" -> "raise"
                    [] OTHER -> IF last THEN "False" ELSE "running"
    IN  [d EXCEPT !.requests = d.requests + 1,
                  !.outcomes = Append(d.outcomes, outcome),
                  !.attempt = IF result = "running" THEN d.attempt + 1 ELSE d.attempt,
                  !.result = result]

\* one pass of the loop body of download_file: requests.get, then the
\* return or the handler of the exception
AfterAttempt(d, outcome) ==
    LET last == d.attempt = d.max_retries
        result == CASE outcome = "ok" -> "True"
                    [] outcome = "os_error" -> "raise"
                    [] outcome = "4xx" -> "False"
                    [] OTHER -> IF last THEN "False" ELSE "running"
    IN  [d EXCEPT !.requests = d.requests + 1,
                  !.outcomes = Append(d.outcomes, outcome),
                  !.attempt = IF result = "running" THEN d.attempt + 1 ELSE d.attempt,
                  !.result = result]

InitDownload ==
    /\ \E max_retries \in 0..MaxRetries :
          dl = [max_retries |-> max_retries, attempt |-> 0, requests |-> 0,
                outcomes |-> <<>>, result |-> "running"]
    /\ raw_file = NoFile
    /\ loaded_df = NoDf
    /\ quality_metrics = NoMetrics
    /\ st1_df = NoDf
    /\ st37_df = NoDf
    /\ petrinex_df = NoDf
    /\ prepared_petrinex_df = NoDf
    /\ merged_df = NoDf
    /\ normalized_df = NoDf
    /\ enriched_df = NoDf
    /\ env = NoEnv
    /\ calls = <<>>
    /\ exit_code = NoExit
    /\ parquet_written = FALSE
    /\ pc = "start"
    /\ IdleLic
    /\ IdleUwi

\* for attempt in range(max_retries + 1): one pass
Attempt ==
    /\ dl.result = "running"
    /\ dl.attempt <= dl.max_retries
    /\ \E outcome \in AttemptOutcomes : dl' = AfterAttempt(dl, outcome)
    /\ UNCHANGED <<raw_file, loaded_df, quality_metrics, licVars, uwiVars, tblData, pc, runVars>>

NextDownload == Attempt

SpecDownload == InitDownload /\ [][NextDownload]_vars

\* the loop is sequential code: requests.get returns or raises within the
\* timeout and time.sleep returns, so a pending pass is eventually made
SpecDownloadLive == SpecDownload /\ WF_vars(NextDownload)

\* the state of a call of download_file agrees with the claim
DownloadAsClaimed ==
    dl.result # "none" =>
        /\ dl.requests <= dl.max_retries + 1
        /\ \A i \in 1..Len(dl.outcomes) :
              /\ dl.outcomes[i] = "ok" => i = Len(dl.outcomes) /\ dl.result = "True"
              /\ dl.outcomes[i] = "4xx" => i = Len(dl.outcomes) /\ dl.result = "False"
        /\ dl.result = "True" => dl.outcomes[Len(dl.outcomes)] = "ok"
        /\ (dl.result = "False" /\ dl.outcomes[Len(dl.outcomes)] # "4xx")
              => /\ dl.requests = dl.max_retries + 1
                 /\ \A i \in 1..Len(dl.outcomes) :
                       dl.outcomes[i] \in {"timeout", "5xx", "request_error"}
        /\ (/\ dl.requests = dl.max_retries + 1
            /\ dl.outcomes[Len(dl.outcomes)] \in {"timeout", "5xx", "request_error"})
              => dl.result = "False"

\* C24: download_file always terminates after at most max_retries + 1 HTTP
\* attempts; it returns True on the first successful attempt without
\* attempting again, returns False at once on a 4xx error, and returns False
\* once timeouts, 5xx errors or request errors have used all
\* max_retries + 1 attempts.
C24_DownloadTerminates ==
    /\ []DownloadAsClaimed
    /\ <>(dl.result \in {"True", "False", "raise"})

\* a call with max_retries = 2 that returned False after a timeout, a 5xx
\* error and a request error
C24_Witness ==
    /\ dl.result = "False"
    /\ dl.max_retries = 2
    /\ dl.requests = 3
    /\ dl.outcomes = <<"timeout", "5xx", "request_error">>

----------------------------------------------------------------------------
(* analyze_data_quality (output.py) *)

\* most rows of a table handed to analyze_data_quality
MaxQualityRows == 2

\* p in s.lower(), character by character
InLower(p, s) ==
    \E i \in 1..(Len(s) - Len(p) + 1) :
       \A j \in 1..Len(p) : LowerChar(CharAt(s, i + j - 1)) = CharAt(p, j)

\* next((col for col in df.columns if a in col.lower() and b in col.lower()), None)
RECURSIVE FirstColumnWith(_, _, _)
FirstColumnWith(order, a, b) ==
    IF order = <<>> THEN NULL
    ELSE IF InLower(a, Head(order)) /\ InLower(b, Head(order))
         THEN Head(order)
    ELSE FirstColumnWith(Tail(order), a, b)

\* pl.col(c).is_not_null() & (pl.col(c) > 0)
Positive(row, c) == row[c] # NULLV /\ row[c] > 0

\* rows the filter on the oil and gas volume columns keeps
ProducingRows(df, oil_vol_col, gas_vol_col) ==
    {i \in 1..Len(df.rows) : Positive(df.rows[i], oil_vol_col) \/ Positive(df.rows[i], gas_vol_col)}

\* str(status) of a group key: the null key prints as 'None'
StrOf(v) == IF v = NULL THEN "None" ELSE v

\* group_by(col).agg(pl.count()): the keys of the producing rows, null included
GroupKeys(df, producing, col) == {df.rows[i][col] : i \in producing}

GroupCount(df, producing, col, key) == Cardinality({i \in producing : df.rows[i][col] = key})

\* {str(status): count for status, count in zip(...)}: one entry per printed
\* key; group_by returns the groups in no fixed order, so of two groups that
\* print alike either may be the one whose count stays
GroupedCountDicts(df, producing, col) ==
    LET keys == GroupKeys(df, producing, col)
    IN  {d \in [{StrOf(k) : k \in keys} -> 1..Len(df.rows)] :
            \A s \in DOMAIN d :
               \E k \in keys : StrOf(k) = s /\ d[s] = GroupCount(df, producing, col, k)}

\* the column names analyze_data_quality looks for
QualityColumns(df) ==
    [oil_vol_col |-> FirstColumnWith(df.order, "oil", "vol"),
     gas_vol_col |-> FirstColumnWith(df.order, "gas", "vol"),
     mode_col |-> FirstColumnWith(df.order, "mode", ""),
     license_status_col |-> FirstColumnWith(df.order, "licen", "status")]

\* output.py analyze_data_quality; by_status and by_license_status are the
\* dictionaries built from the two group_by results
analyze_data_quality(df, by_status, by_license_status) ==
    LET q == QualityColumns(df)
    IN  IF q.oil_vol_col = NULL \/ q.gas_vol_col = NULL
        THEN [kind |-> "dict", keys |-> {}]
        ELSE [kind |-> "dict",
              keys |-> {"rows_with_oil", "rows_with_gas", "rows_with_production"}
                         \cup (IF q.mode_col # NULL THEN {"production_by_status"} ELSE {})
                         \cup (IF q.license_status_col # NULL
                               THEN {"production_by_license_status"} ELSE {}),
              rows_with_oil |->
                  Cardinality({i \in 1..Len(df.rows) : Positive(df.rows[i], q.oil_vol_col)}),
              rows_with_gas |->
                  Cardinality({i \in 1..Len(df.rows) : Positive(df.rows[i], q.gas_vol_col)}),
              rows_with_production |->
                  Cardinality(ProducingRows(df, q.oil_vol_col, q.gas_vol_col)),
              production_by_status |-> by_status,
              production_by_license_status |-> by_license_status]

\* column orders of the normalized table: licence columns, status columns,
\* then the pivoted volume columns; one of them may be missing
QualityOrders ==
    {<<"License Number", "License Status", "License Status Date", "Mode",
       "OIL_Volume", "GAS_Volume">>,
     <<"License Number", "License Status", "License Status Date", "OIL_Volume", "GAS_Volume">>,
     <<"License Number", "Mode", "GAS_Volume", "OIL_Volume">>,
     <<"License Number", "License Status", "License Status Date", "Mode", "OIL_Volume">>}

QualityRow(oil, gas, mode, status) ==
    [c \in {"License Number", "License Status", "License Status Date", "Mode",
            "OIL_Volume", "GAS_Volume"} |->
        CASE c = "License Number" -> "1000"
          [] c = "License Status" -> status
          [] c = "License Status Date" -> "2020-01-01"
          [] c = "Mode" -> mode
          [] c = "OIL_Volume" -> oil
          [] c = "GAS_Volume" -> gas]

\* Mode and License Status of a row: text, null, and the text 'None'
QualityLabels ==
    {<<NULL, "Issued">>, <<"None", "Issued">>, <<"Flowing", NULL>>, <<"Flowing", "Issued">>}

InitQuality ==
    /\ \E order \in QualityOrders : \E n \in 0..MaxQualityRows :
         \E oils \in [1..n -> {NULLV, 0, 5}], gases \in [1..n -> {NULLV, 7}],
            labels \in [1..n -> QualityLabels] :
            LET cols == {order[j] : j \in 1..Len(order)}
            IN  normalized_df =
                  [kind |-> "table", cols |-> cols, order |-> order,
                   rows |-> [i \in 1..n |->
                               [c \in cols |->
                                  QualityRow(oils[i], gases[i], labels[i][1],
                                             labels[i][2])[c]]]]
    /\ quality_metrics = NoMetrics
    /\ dl = NoDownload
    /\ raw_file = NoFile
    /\ loaded_df = NoDf
    /\ st1_df = NoDf
    /\ st37_df = NoDf
    /\ petrinex_df = NoDf
    /\ prepared_petrinex_df = NoDf
    /\ merged_df = NoDf
    /\ enriched_df = NoDf
    /\ env = NoEnv
    /\ calls = <<>>
    /\ exit_code = NoExit
    /\ parquet_written = FALSE
    /\ pc = "start"
    /\ IdleLic
    /\ IdleUwi

\* quality_metrics = analyze_data_quality(df) in save_normalized_data
AnalyzeDataQuality ==
    /\ pc = "start"
    /\ LET q == QualityColumns(normalized_df)
           found == q.oil_vol_col # NULL /\ q.gas_vol_col # NULL
           producing == IF found
                        THEN ProducingRows(normalized_df, q.oil_vol_col, q.gas_vol_col)
                        ELSE {}
       IN  \E by_status \in IF found /\ q.mode_col # NULL
                            THEN GroupedCountDicts(normalized_df, producing, q.mode_col)
                            ELSE {<<>>} :
           \E by_license_status \in
                 IF found /\ q.license_status_col # NULL
                 THEN GroupedCountDicts(normalized_df, producing, q.license_status_col)
                 ELSE {<<>>} :
              quality_metrics' = analyze_data_quality(normalized_df, by_status, by_license_status)
    /\ pc' = "analyzed"
    /\ UNCHANGED <<raw_file, loaded_df, dl, licVars, uwiVars, tblData, runVars>>

NextQuality == AnalyzeDataQuality

SpecQuality == InitQuality /\ [][NextQuality]_vars

\* sum of the counts of a dictionary of grouped counts
RECURSIVE SumCounts(_, _)
SumCounts(d, keys) ==
    IF keys = {} THEN 0
    ELSE LET s == CHOOSE x \in keys : TRUE IN d[s] + SumCounts(d, keys \ {s})

\* number of rows of the table whose cell c holds a number above zero; a
\* table without the column has no such row
RowsAboveZero(df, c) ==
    IF c \in df.cols THEN Cardinality({i \in 1..Len(df.rows) : Positive(df.rows[i], c)}) ELSE 0

RowsWithEither(df) ==
    Cardinality({i \in 1..Len(df.rows) :
                    \E c \in {"OIL_Volume", "GAS_Volume"} \cap df.cols : Positive(df.rows[i], c)})

\* the three counts are reported, exact and ordered as claimed
CountsAsClaimed(df, m) ==
    /\ {"rows_with_oil", "rows_with_gas", "rows_with_production"} \subseteq m.keys
    /\ m.rows_with_oil = RowsAboveZero(df, "OIL_Volume")
    /\ m.rows_with_gas = RowsAboveZero(df, "GAS_Volume")
    /\ m.rows_with_production = RowsWithEither(df)
    /\ m.rows_with_oil <= m.rows_with_production
    /\ m.rows_with_gas <= m.rows_with_production
    /\ m.rows_with_production <= m.rows_with_oil + m.rows_with_gas

\* the grouped counts of each status column present sum to rows_with_production
GroupedAsClaimed(df, m) ==
    /\ "Mode" \in df.cols =>
          /\ "production_by_status" \in m.keys
          /\ SumCounts(m.production_by_status, DOMAIN m.production_by_status)
                = m.rows_with_production
    /\ "License Status" \in df.cols =>
          /\ "production_by_license_status" \in m.keys
          /\ SumCounts(m.production_by_license_status,
                       DOMAIN m.production_by_license_status) = m.rows_with_production

\* C25: analyze_data_quality reports rows_with_oil, rows_with_gas and
\* rows_with_production as the exact counts of rows with OIL volume > 0, GAS
\* volume > 0, and either; so max(oil, gas) <= production <= oil + gas, and
\* the grouped counts reported for a Mode or licence-status column that is
\* present sum to rows_with_production.
C25_QualityCounts ==
    pc = "analyzed" =>
        /\ CountsAsClaimed(normalized_df, quality_metrics)
        /\ GroupedAsClaimed(normalized_df, quality_metrics)

\* two group keys of the column print as the same dictionary key
PrintsAlike(df, col) ==
    \E i, j \in 1..Len(df.rows) :
       df.rows[i][col] # df.rows[j][col] /\ StrOf(df.rows[i][col]) = StrOf(df.rows[j][col])

\* with both volume columns found, the three counts are as claimed, and so
\* are the grouped counts of a status column whose keys print differently
QualityCountsWhenColumnsFound ==
    (pc = "analyzed" /\ {"OIL_Volume", "GAS_Volume"} \subseteq normalized_df.cols) =>
        /\ CountsAsClaimed(normalized_df, quality_metrics)
        /\ (\A col \in {"Mode", "License Status"} \cap normalized_df.cols :
               ~PrintsAlike(normalized_df, col))
              => GroupedAsClaimed(normalized_df, quality_metrics)

----------------------------------------------------------------------------
(* Display conversion and location exceptions; raw against display *)

\* a well-formed display identifier on meridian W4
OnMeridianW4(u) == u \in WellFormedDisplayUwis /\ Contains(u, "W4/")

\* C26: for every well-formed display identifier on meridian W4, whatever its
\* two-character location-exception code (codes beginning with '1' such as
\* '10' included), the display conversion returns a 16-character production
\* identifier: '1', the stripped characters preceding the event digit, then
\* the event sequence zero-padded to two digits.
C26_AnyLocationException ==
    (uwi_op = "display" /\ OnMeridianW4(uwi))
    => /\ Len(uwi_out) = 16
       /\ LET s == StripNonAlnum(uwi)
          IN  uwi_out = "1" \o SubSeq(s, 1, Len(s) - 1) \o ZFill(SubSeq(s, Len(s), Len(s)), 2)

\* the same holds for the location exceptions that do not begin with '1'
SixteenUnlessLeadingOne ==
    (uwi_op = "display" /\ OnMeridianW4(uwi) /\ ~StartsWith(uwi, "1"))
    => /\ Len(uwi_out) = 16
       /\ LET s == StripNonAlnum(uwi)
          IN  uwi_out = "1" \o SubSeq(s, 1, Len(s) - 1) \o ZFill(SubSeq(s, Len(s), Len(s)), 2)

\* the display identifier of the well a compact identifier 00MRRRTTTSSLLE
\* names, and the pair of the docstrings and of the fixture st37_test
DisplayOfRaw(u) ==
    IF u = "0014010606002" THEN "00/06-06-001-01W4/2"
    ELSE DisplayUwi("00", SubSeq(u, 12, 13), SubSeq(u, 10, 11), SubSeq(u, 7, 9),
                    SubSeq(u, 5, 6), SubSeq(u, 3, 3), SubSeq(u, 14, 14))

\* C27: for the same well, the raw conversion of the compact ST37 identifier
\* and the display conversion of the display identifier give the same
\* production identifier, as in the documented example '0014010606002' and
\* '00/06-06-001-01W4/2', both standing for '100060600101W402'.
C27_RawAgreesWithDisplay ==
    (uwi_op = "raw" /\ uwi \in RawUwis)
    => /\ uwi_out = convert_display_uwi(DisplayOfRaw(uwi))
       /\ uwi = "0014010606002" => uwi_out = "100060600101W402"

----------------------------------------------------------------------------
(* Gap filler: where values come from, and what is left alone *)

\* the columns fill_missing_values fills
FillableCols == {"UWI Display", "OIL Volume", "GAS Volume"}

\* cell (i, c) was null in the input and holds a value in the result
Written(i, c) == merged_df.rows[i][c] = NullOf(c) /\ normalized_df.rows[i][c] # NullOf(c)

\* C28: any value fill_missing_values writes into a previously null cell
\* equals a value that was non-null in the same column of another row with
\* the same, non-null Standardized_License; values never pass between rows
\* of different licences, and rows whose Standardized_License is null never
\* receive a value from another row.
C28_FillWithinLicence ==
    (pc = "filled" /\ "Standardized_License" \in merged_df.cols)
    => \A i \in 1..Len(merged_df.rows) : \A c \in merged_df.cols :
          Written(i, c)
          => /\ merged_df.rows[i]["Standardized_License"] # NULL
             /\ \E j \in 1..Len(merged_df.rows) \ {i} :
                   /\ merged_df.rows[j]["Standardized_License"]
                         = merged_df.rows[i]["Standardized_License"]
                   /\ merged_df.rows[j][c] = normalized_df.rows[i][c]

\* what does hold: a written value comes from another row with an equal
\* Standardized_License cell, the null cell included
FillWithinEqualLicenceCell ==
    (pc = "filled" /\ "Standardized_License" \in merged_df.cols)
    => \A i \in 1..Len(merged_df.rows) : \A c \in merged_df.cols :
          Written(i, c)
          => \E j \in 1..Len(merged_df.rows) \ {i} :
                /\ merged_df.rows[j]["Standardized_License"]
                      = merged_df.rows[i]["Standardized_License"]
                /\ merged_df.rows[j][c] = normalized_df.rows[i][c]

\* C29: fill_missing_values preserves the number and order of rows, every
\* column outside the fillable set and every cell that was non-null in its
\* input; it only replaces nulls, so a second application changes nothing,
\* and when the Standardized_License column is absent it returns the input
\* unchanged.
C29_FillFrame ==
    pc = "filled"
    => /\ normalized_df.cols = merged_df.cols
       /\ Len(normalized_df.rows) = Len(merged_df.rows)
       /\ \A i \in 1..Len(merged_df.rows) : \A c \in merged_df.cols :
             (c \notin FillableCols \/ merged_df.rows[i][c] # NullOf(c))
             => normalized_df.rows[i][c] = merged_df.rows[i][c]
       /\ fill_missing_values(normalized_df) = normalized_df
       /\ "Standardized_License" \notin merged_df.cols => normalized_df = merged_df

\* a table of two licences in which a null display identifier was filled
\* while a value and the cells of the other licence stayed as they were
C29_Witness ==
    /\ pc = "filled"
    /\ Len(merged_df.rows) = 3
    /\ "OIL Volume" \in merged_df.cols
    /\ merged_df.rows[1]["Standardized_License"] = "1000"
    /\ merged_df.rows[2]["Standardized_License"] = "2000"
    /\ merged_df.rows[3]["Standardized_License"] = "1000"
    /\ Written(1, "UWI Display")
    /\ merged_df.rows[3]["OIL Volume"] = 150
    /\ normalized_df.rows[1]["OIL Volume"] = 150
    /\ normalized_df.rows[2]["OIL Volume"] = NULLV
    /\ normalized_df.rows[2]["UWI Display"] = NULL

----------------------------------------------------------------------------
(* Licence merge on small tables *)

\* C30: merge_st1_st37 returns a merged table without raising for all licence
\* and status tables that have the required columns, whatever their row
\* counts, tables with fewer than 5 rows (such as the 3-row embedded
\* fixtures) and a status table with zero rows included.
C30_MergeNeverRaises ==
    (pc = "merged" /\ "License Number" \in st1_df.cols /\ HasStatusKeys(st37_df))
    => merged_df.kind = "table"

\* what does hold: from 5 rows on in both tables the merge returns a table,
\* unless the join itself rejects the column names
MergeReturnsFromFiveRows ==
    (/\ pc = "merged"
     /\ "License Number" \in st1_df.cols
     /\ HasStatusKeys(st37_df)
     /\ Len(st1_df.rows) >= SampleN
     /\ Len(st37_df.rows) >= SampleN
     /\ ~JoinRaises(st37_df, st1_df, "Standardized_License")
     /\ "Standardized_License" \notin st37_df.cols \cup st1_df.cols)
    => merged_df.kind = "table"

====
